---- MODULE Spec2Model ----
(***************************************************************************)
(* SOPHIA service (src/sophia_service): intent routing, risk policy,       *)
(* VictorIA escalation, conversation memory and the /chat request handler. *)
(*                                                                         *)
(* Python strings are sequences of one-character strings, so that          *)
(* `keyword in message`, str.lower, str.split, str.strip and the IPv4      *)
(* regular expression are computed character by character.  Accented       *)
(* letters are written "e_acute", "o_acute", "a_acute", "u_acute".         *)
(***************************************************************************)
EXTENDS Integers, Sequences, FiniteSets, TLC

VARIABLES
  message,          \* the user message handed to detect_intent
  origin,           \* "none" | "detected" (by detect_intent) | "constructed" (ActionRequest(...))
  intent_type,      \* first component of detect_intent's result
  action_request,   \* the ActionRequest descriptor
  severity,         \* result of _determine_severity
  escalate,         \* result of should_escalate_to_victoria
  pc                \* position in classify -> rate -> decide

routerVars == <<message, origin, intent_type, action_request, severity, escalate, pc>>

None == "None"

----------------------------------------------------------------------------
\* Python string primitives

UpperChars == <<"A","B","C","D","E","F","G","H","I","J","K","L","M","N","O","P","Q","R","S","T","U","V","W","X","Y","Z">>

LowerChars == <<"a","b","c","d","e","f","g","h","i","j","k","l","m","n","o","p","q","r","s","t","u","v","w","x","y","z">>

AccentChars == {"e_acute", "o_acute", "a_acute", "u_acute"}

DigitChars == {"0","1","2","3","4","5","6","7","8","9"}

UpperSet == {UpperChars[i] : i \in 1..26}

LetterSet == UpperSet \cup {LowerChars[i] : i \in 1..26}

UpperIndex ==
  "A" :> 1 @@ "B" :> 2 @@ "C" :> 3 @@ "D" :> 4 @@ "E" :> 5 @@ "F" :> 6 @@ "G" :> 7 @@
  "H" :> 8 @@ "I" :> 9 @@ "J" :> 10 @@ "K" :> 11 @@ "L" :> 12 @@ "M" :> 13 @@ "N" :> 14 @@
  "O" :> 15 @@ "P" :> 16 @@ "Q" :> 17 @@ "R" :> 18 @@ "S" :> 19 @@ "T" :> 20 @@ "U" :> 21 @@
  "V" :> 22 @@ "W" :> 23 @@ "X" :> 24 @@ "Y" :> 25 @@ "Z" :> 26

LowerChar(c) == IF c \in UpperSet THEN LowerChars[UpperIndex[c]] ELSE c

\* str.lower()
lower(s) == SubSeq([i \in 1..Len(s) |-> LowerChar(s[i])], 1, Len(s))

\* Python `k in s` for strings: k occurs as a contiguous substring of s
Contains(k, s) ==
  \E i \in 1..(Len(s) - Len(k) + 1) : \A j \in 1..Len(k) : s[i + j - 1] = k[j]

\* \w of the re module (str patterns are Unicode-aware)
IsWordChar(c) == c \in DigitChars \/ c \in AccentChars \/ c = "_" \/ c \in LetterSet

IsSpace(c) == c = " "

RECURSIVE SplitFrom(_, _, _)
\* str.split(): maximal runs of non-whitespace, scanning from position i with
\* the current run cur
SplitFrom(s, i, cur) ==
  IF i > Len(s)
    THEN IF cur = <<>> THEN <<>> ELSE <<cur>>
    ELSE IF IsSpace(s[i])
           THEN (IF cur = <<>> THEN <<>> ELSE <<cur>>) \o SplitFrom(s, i + 1, <<>>)
           ELSE SplitFrom(s, i + 1, Append(cur, s[i]))

split(s) == SplitFrom(s, 1, <<>>)

StripChars == {".", ",", "!", "?"}

RECURSIVE lstrip(_)
lstrip(s) == IF s # <<>> /\ Head(s) \in StripChars THEN lstrip(Tail(s)) ELSE s

RECURSIVE rstrip(_)
rstrip(s) == IF s # <<>> /\ s[Len(s)] \in StripChars THEN rstrip(SubSeq(s, 1, Len(s) - 1)) ELSE s

\* word.strip('.,!?')
strip(s) == rstrip(lstrip(s))

----------------------------------------------------------------------------
\* IntentRouter vocabularies (src/sophia_service/sophia/intent_router.py)

\* IntentRouter.ACTION_KEYWORDS (English & Spanish)
ACTION_KEYWORDS ==
  {
    <<"b","l","o","c","k">>,   \* block
    <<"q","u","a","r","a","n","t","i","n","e">>,   \* quarantine
    <<"i","s","o","l","a","t","e">>,   \* isolate
    <<"s","h","u","t","d","o","w","n">>,   \* shutdown
    <<"d","i","s","a","b","l","e">>,   \* disable
    <<"r","e","m","o","v","e">>,   \* remove
    <<"d","e","l","e","t","e">>,   \* delete
    <<"t","e","r","m","i","n","a","t","e">>,   \* terminate
    <<"k","i","l","l">>,   \* kill
    <<"s","t","o","p">>,   \* stop
    <<"b","a","n">>,   \* ban
    <<"r","e","s","t","r","i","c","t">>,   \* restrict
    <<"e","x","e","c","u","t","e">>,   \* execute
    <<"r","u","n">>,   \* run
    <<"d","e","p","l","o","y">>,   \* deploy
    <<"c","o","n","f","i","g","u","r","e">>,   \* configure
    <<"c","h","a","n","g","e">>,   \* change
    <<"m","o","d","i","f","y">>,   \* modify
    <<"b","l","o","q","u","e","a">>,   \* bloquea
    <<"b","l","o","q","u","e","a","r">>,   \* bloquear
    <<"c","u","a","r","e","n","t","e","n","a">>,   \* cuarentena
    <<"a","i","s","l","a">>,   \* aisla
    <<"a","i","s","l","a","r">>,   \* aislar
    <<"a","p","a","g","a">>,   \* apaga
    <<"a","p","a","g","a","r">>,   \* apagar
    <<"d","e","s","h","a","b","i","l","i","t","a">>,   \* deshabilita
    <<"d","e","s","h","a","b","i","l","i","t","a","r">>,   \* deshabilitar
    <<"e","l","i","m","i","n","a">>,   \* elimina
    <<"e","l","i","m","i","n","a","r">>,   \* eliminar
    <<"d","e","t","e_acute","n">>,   \* dete'n
    <<"d","e","t","e","n","e","r">>,   \* detener
    <<"e","j","e","c","u","t","a">>,   \* ejecuta
    <<"e","j","e","c","u","t","a","r">>,   \* ejecutar
    <<"d","e","s","p","l","i","e","g","a">>,   \* despliega
    <<"d","e","s","p","l","e","g","a","r">>,   \* desplegar
    <<"c","o","n","f","i","g","u","r","a">>,   \* configura
    <<"c","o","n","f","i","g","u","r","a","r">>,   \* configurar
    <<"c","a","m","b","i","a">>,   \* cambia
    <<"c","a","m","b","i","a","r">>,   \* cambiar
    <<"m","o","d","i","f","i","c","a">>,   \* modifica
    <<"m","o","d","i","f","i","c","a","r">>,   \* modificar
    <<"b","o","r","r","a">>,   \* borra
    <<"b","o","r","r","a","r">>   \* borrar
  }

\* IntentRouter.QUERY_KEYWORDS (English & Spanish)
QUERY_KEYWORDS ==
  {
    <<"s","h","o","w">>,   \* show
    <<"l","i","s","t">>,   \* list
    <<"g","e","t">>,   \* get
    <<"d","i","s","p","l","a","y">>,   \* display
    <<"w","h","a","t">>,   \* what
    <<"w","h","e","n">>,   \* when
    <<"w","h","e","r","e">>,   \* where
    <<"h","o","w">>,   \* how
    <<"s","t","a","t","u","s">>,   \* status
    <<"c","h","e","c","k">>,   \* check
    <<"s","e","e">>,   \* see
    <<"v","i","e","w">>,   \* view
    <<"t","e","l","l">>,   \* tell
    <<"e","x","p","l","a","i","n">>,   \* explain
    <<"d","e","s","c","r","i","b","e">>,   \* describe
    <<"m","u","e","s","t","r","a">>,   \* muestra
    <<"m","o","s","t","r","a","r">>,   \* mostrar
    <<"l","i","s","t","a">>,   \* lista
    <<"l","i","s","t","a","r">>,   \* listar
    <<"o","b","t","e_acute","n">>,   \* obte'n
    <<"o","b","t","e","n","e","r">>,   \* obtener
    <<"q","u","e_acute">>,   \* que'
    <<"c","u","a_acute","n","d","o">>,   \* cua'ndo
    <<"d","o_acute","n","d","e">>,   \* do'nde
    <<"c","o_acute","m","o">>,   \* co'mo
    <<"e","s","t","a","d","o">>,   \* estado
    <<"v","e","r","i","f","i","c","a">>,   \* verifica
    <<"v","e","r","i","f","i","c","a","r">>,   \* verificar
    <<"v","e">>,   \* ve
    <<"v","e","r">>,   \* ver
    <<"d","i","m","e">>,   \* dime
    <<"e","x","p","l","i","c","a">>,   \* explica
    <<"e","x","p","l","i","c","a","r">>,   \* explicar
    <<"d","e","s","c","r","i","b","i","r">>,   \* describir
    <<"h","a","y">>,   \* hay
    <<"c","u","a_acute","l","e","s">>,   \* cua'les
    <<"c","u","a_acute","l">>   \* cua'l
  }

\* IntentRouter.HIGH_RISK_ACTIONS
HIGH_RISK_ACTIONS ==
  {"block_ip", "quarantine_device", "shutdown_system", "delete_user",
   "disable_firewall", "emergency_response", "isolate_network"}

\* string literals of _determine_action_type and _extract_parameters
kw_block == <<"b","l","o","c","k">>

kw_ip == <<"i","p">>

kw_quarantine == <<"q","u","a","r","a","n","t","i","n","e">>

kw_isolate == <<"i","s","o","l","a","t","e">>

kw_shutdown == <<"s","h","u","t","d","o","w","n">>

kw_shut_down == <<"s","h","u","t"," ","d","o","w","n">>

kw_delete == <<"d","e","l","e","t","e">>

kw_user == <<"u","s","e","r">>

kw_disable == <<"d","i","s","a","b","l","e">>

kw_firewall == <<"f","i","r","e","w","a","l","l">>

kw_emergency == <<"e","m","e","r","g","e","n","c","y">>

kw_configure == <<"c","o","n","f","i","g","u","r","e">>

kw_change == <<"c","h","a","n","g","e">>

kw_device == <<"d","e","v","i","c","e">>

kw_host == <<"h","o","s","t">>

kw_server == <<"s","e","r","v","e","r">>

kw_critical == <<"c","r","i","t","i","c","a","l">>

kw_high == <<"h","i","g","h">>

kw_urgent == <<"u","r","g","e","n","t">>

----------------------------------------------------------------------------
\* victor/ticket_models.py

\* an empty dict
EmptyDict == [k \in {} |-> None]

\* the ActionRequest dataclass
ActionRequest(intent, action_type, parameters, original_message, requires_escalation) ==
  [intent |-> intent,
   action_type |-> action_type,
   parameters |-> parameters,
   original_message |-> original_message,
   requires_escalation |-> requires_escalation]

----------------------------------------------------------------------------
\* IntentRouter (src/sophia_service/sophia/intent_router.py)

\* any(keyword in message_lower for keyword in self.ACTION_KEYWORDS)
has_action(message_lower) == \E keyword \in ACTION_KEYWORDS : Contains(keyword, message_lower)

\* any(keyword in message_lower for keyword in self.QUERY_KEYWORDS)
has_query(message_lower) == \E keyword \in QUERY_KEYWORDS : Contains(keyword, message_lower)

\* _determine_action_type with the plain block rule tried first
_determine_action_type_block_first(m) ==
  IF Contains(kw_block, m) THEN "block_resource"
  ELSE IF Contains(kw_block, m) /\ Contains(kw_ip, m) THEN "block_ip"
  ELSE IF Contains(kw_quarantine, m) \/ Contains(kw_isolate, m) THEN "quarantine_device"
  ELSE IF Contains(kw_shutdown, m) \/ Contains(kw_shut_down, m) THEN "shutdown_system"
  ELSE IF Contains(kw_delete, m) /\ Contains(kw_user, m) THEN "delete_user"
  ELSE IF Contains(kw_disable, m) /\ Contains(kw_firewall, m) THEN "disable_firewall"
  ELSE IF Contains(kw_emergency, m) THEN "emergency_response"
  ELSE IF Contains(kw_configure, m) \/ Contains(kw_change, m) THEN "configuration_change"
  ELSE "general_action"

\* IntentRouter._determine_action_type
_determine_action_type(m) ==
  IF Contains(kw_block, m) /\ Contains(kw_ip, m) THEN "block_ip"
  ELSE IF Contains(kw_quarantine, m) \/ Contains(kw_isolate, m) THEN "quarantine_device"
  ELSE IF Contains(kw_shutdown, m) \/ Contains(kw_shut_down, m) THEN "shutdown_system"
  ELSE IF Contains(kw_delete, m) /\ Contains(kw_user, m) THEN "delete_user"
  ELSE IF Contains(kw_disable, m) /\ Contains(kw_firewall, m) THEN "disable_firewall"
  ELSE IF Contains(kw_emergency, m) THEN "emergency_response"
  ELSE IF Contains(kw_block, m) THEN "block_resource"
  ELSE IF Contains(kw_configure, m) \/ Contains(kw_change, m) THEN "configuration_change"
  ELSE "general_action"

RECURSIVE DigitRun(_, _)
\* length of the run of digits of s that starts at position i
DigitRun(s, i) == IF i <= Len(s) /\ s[i] \in DigitChars THEN 1 + DigitRun(s, i + 1) ELSE 0

\* position of the dot that ends a group (?:\d{1,3}\.) starting at i whose
\* run of digits has length r, 0 when the group does not match there
GroupEndFor(s, i, r) ==
  IF r \in 1..3 /\ i + r <= Len(s) /\ s[i + r] = "." THEN i + r ELSE 0

\* position of the dot that ends a group (?:\d{1,3}\.) starting at i, 0 when
\* the group does not match there
GroupEnd(s, i) == GroupEndFor(s, i, DigitRun(s, i))

\* the group after the one that ended at e, 0 when that one did not match
NextGroupEnd(s, e) == IF e = 0 THEN 0 ELSE GroupEnd(s, e + 1)

\* \d{1,3}\b after the third dot at e3, with r digits there: the last
\* position of the match, 0 when there is none
LastGroupFor(s, e3, r) ==
  IF e3 # 0 /\ r \in 1..3 /\ (e3 + r = Len(s) \/ ~IsWordChar(s[e3 + r + 1]))
    THEN e3 + r
    ELSE 0

LastGroup(s, e3) == LastGroupFor(s, e3, IF e3 = 0 THEN 0 ELSE DigitRun(s, e3 + 1))

\* last position of a match of \b(?:\d{1,3}\.){3}\d{1,3}\b that starts at i,
\* 0 when there is none
MatchIPAt(s, i) ==
  IF i > 1 /\ IsWordChar(s[i - 1]) THEN 0
  ELSE LastGroup(s, NextGroupEnd(s, NextGroupEnd(s, GroupEnd(s, i))))

RECURSIVE FindAllFrom(_, _)
\* the scan of re.findall at position i, where a match ends at e (0: none)
FindAllStep(s, i, e) ==
  IF e > 0 THEN <<SubSeq(s, i, e)>> \o FindAllFrom(s, e + 1)
  ELSE FindAllFrom(s, i + 1)

\* re.findall(ip_pattern, s): the non-overlapping matches, left to right
FindAllFrom(s, i) ==
  IF i > Len(s) THEN <<>> ELSE FindAllStep(s, i, MatchIPAt(s, i))

findall_ip(s) == FindAllFrom(s, 1)

SetMax(S) == CHOOSE x \in S : \A y \in S : y <= x

\* if ips: parameters['ip_addresses'] = ips
ip_parameter(ips) == IF ips # <<>> THEN "ip_addresses" :> ips ELSE EmptyDict

\* the indices of the words that name a device and have a successor
device_words(words) ==
  {i \in 1..Len(words) :
     /\ lower(words[i]) \in {kw_device, kw_host, kw_server}
     /\ i < Len(words)}

\* the loop overwrites device_name, so the last qualifying word wins
device_name_at(message_lower, words, hits) ==
  IF (Contains(kw_device, message_lower) \/ Contains(kw_host, message_lower)) /\ hits # {}
    THEN "device_name" :> strip(words[SetMax(hits) + 1])
    ELSE EmptyDict

device_parameter(message_lower, words) ==
  device_name_at(message_lower, words, device_words(words))

\* the first of critical, high, urgent found in the message
severity_parameter(message_lower) ==
  IF Contains(kw_critical, message_lower) THEN "severity" :> kw_critical
  ELSE IF Contains(kw_high, message_lower) THEN "severity" :> kw_high
  ELSE IF Contains(kw_urgent, message_lower) THEN "severity" :> kw_urgent
  ELSE EmptyDict

\* IntentRouter._extract_parameters
_extract_parameters(msg) ==
  ip_parameter(findall_ip(msg))
    @@ device_parameter(lower(msg), split(msg))
    @@ severity_parameter(lower(msg))

\* detect_intent matching the keywords against the message as typed instead
\* of its lower-cased form
detect_intent_case_sensitive(msg) ==
  LET action_type == _determine_action_type(lower(msg))
  IN IF has_action(msg) /\ ~has_query(msg)
       THEN <<"action", ActionRequest("action", action_type, _extract_parameters(msg),
                                      msg, action_type \in HIGH_RISK_ACTIONS)>>
       ELSE <<"query", ActionRequest("query", "information_request", "query" :> msg,
                                     msg, FALSE)>>

\* detect_intent letting an action keyword win over a query keyword
detect_intent_action_wins(msg) ==
  LET action_type == _determine_action_type(lower(msg))
  IN IF has_action(lower(msg))
       THEN <<"action", ActionRequest("action", action_type, _extract_parameters(msg),
                                      msg, action_type \in HIGH_RISK_ACTIONS)>>
       ELSE <<"query", ActionRequest("query", "information_request", "query" :> msg,
                                     msg, FALSE)>>

\* detect_intent that never sets requires_escalation
detect_intent_never_flagged(msg) ==
  LET message_lower == lower(msg)
      action_type == _determine_action_type(message_lower)
  IN IF has_action(message_lower) /\ ~has_query(message_lower)
       THEN <<"action", ActionRequest("action", action_type, _extract_parameters(msg),
                                      msg, FALSE)>>
       ELSE <<"query", ActionRequest("query", "information_request", "query" :> msg,
                                     msg, FALSE)>>

\* IntentRouter.detect_intent: the pair (intent_type, action_request)
detect_intent(msg) ==
  LET message_lower == lower(msg)
      action_type == _determine_action_type(message_lower)
      requires_escalation == action_type \in HIGH_RISK_ACTIONS
  IN IF has_action(message_lower) /\ ~has_query(message_lower)
       THEN <<"action", ActionRequest("action", action_type, _extract_parameters(msg),
                                      msg, requires_escalation)>>
     ELSE IF has_query(message_lower) \/ ~has_action(message_lower)
       THEN <<"query", ActionRequest("query", "information_request", "query" :> msg,
                                     msg, FALSE)>>
     ELSE <<"unknown", ActionRequest("unknown", "unclear", "message" :> msg,
                                     msg, FALSE)>>

\* should_escalate_to_victoria looking at the high-risk flag alone
should_escalate_flag_only(ar) == ar.requires_escalation

\* IntentRouter.should_escalate_to_victoria
should_escalate_to_victoria(ar) == ar.requires_escalation \/ ar.intent = "action"

\* _determine_severity testing the legacy "high" list before the escalation flag
_determine_severity_high_first(ar) ==
  IF ar.action_type \in {"block_ip", "quarantine_device", "shutdown_system"} THEN "high"
  ELSE IF ar.requires_escalation THEN "critical"
  ELSE IF ar.intent = "action" THEN "medium"
  ELSE "low"

\* handoff._determine_severity
_determine_severity(ar) ==
  IF ar.requires_escalation THEN "critical"
  ELSE IF ar.action_type \in {"block_ip", "quarantine_device", "shutdown_system"} THEN "high"
  ELSE IF ar.intent = "action" THEN "medium"
  ELSE "low"

----------------------------------------------------------------------------
\* Inputs of the classifier

\* words the generated messages are made of
RouterWords ==
  {
    <<"b","l","o","c","k">>,
    <<"I","P">>,
    <<"1","0",".","0",".","0",".","5">>,
    <<"s","h","o","w">>,
    <<"r","e","m","o","v","e">>,
    <<"D","e","l","e","t","e">>,
    <<"u","s","e","r">>,
    <<"h","o","s","t">>,
    <<"s","r","v","1",".">>,
    <<"c","r","i","t","i","c","a","l">>,
    <<"b","l","o","q","u","e","a">>,
    <<"Q","u","e_acute">>,
    <<"s","h","u","t">>,
    <<"d","o","w","n">>
  }

\* largest number of words in a generated message
MaxWords == 2

RECURSIVE Phrases(_)
\* the messages of at most n words, separated by single spaces
Phrases(n) ==
  IF n = 0 THEN {<<>>}
  ELSE LET P == Phrases(n - 1)
       IN P \cup {IF p = <<>> THEN w ELSE p \o <<" ">> \o w : p \in P, w \in RouterWords}

\* "bloquea la IP 10.0.0.5"
msg_bloquea_la_ip == <<"b","l","o","q","u","e","a"," ","l","a"," ","I","P"," ","1","0",".","0",".","0",".","5">>

\* "block the IP 10.0.0.5, host srv1. is critical"
msg_block_host == <<"b","l","o","c","k"," ","t","h","e"," ","I","P"," ","1","0",".","0",".","0",".","5",","," ","h","o","s","t"," ","s","r","v","1","."," ","i","s"," ","c","r","i","t","i","c","a","l">>

ScenarioMessages == {msg_bloquea_la_ip, msg_block_host}

RouterMessages == Phrases(MaxWords) \cup ScenarioMessages

Intents == {"query", "action", "unknown"}

ActionTypes ==
  HIGH_RISK_ACTIONS \cup {"block_resource", "configuration_change", "general_action",
                          "information_request", "unclear"}

----------------------------------------------------------------------------
\* State of the running services

VARIABLES
  tickets,          \* backend `tickets` table: sequence of rows, id = position (serial primary key)
  str_hash,         \* this process's hash() of each ticket subject, modulo 10000
  calls,            \* log of the create_ticket_stub calls made so far: arguments and outcome
  _sessions,        \* MemoryManager._sessions: thread_id -> ConversationContext
  _company_threads, \* MemoryManager._company_threads: company_id -> list of thread_ids
  _agents,          \* AgentLoader._agents: company -> agent info
  _rag_tools,       \* AgentLoader._rag_tools: company -> RAGTool
  request,          \* the HTTP request handled last
  response,         \* the HTTP response to it (status 500 for an unhandled exception)
  branch,           \* branch of process_user_message taken last
  handled,          \* number of HTTP requests handled so far
  env,              \* which optional Azure SDKs this deployment can import
  now,              \* the system clock, as datetime.utcnow() reads it
  _cache,           \* ConfigCache._cache: "company-<id>" key -> configuration
  _timestamps,      \* ConfigCache._timestamps: key -> time of the set
  last_call,        \* the call made last on a module-level object, with its arguments
  returned,         \* what that call returned
  made,             \* number of such calls made so far
  frames,           \* per concurrent caller: where it is in its call, and its locals
  appended          \* per concurrent caller: the messages it appended to threads still stored

escalationVars == <<tickets, str_hash, calls>>

memoryVars == <<_sessions, _company_threads>>

loaderVars == <<_agents, _rag_tools>>

httpVars == <<request, response, handled>>

cacheVars == <<_cache, _timestamps>>

threadVars == <<frames, appended>>

callVars == <<last_call, returned, made, threadVars>>

vars == <<routerVars, escalationVars, memoryVars, loaderVars, httpVars, branch, env, now, cacheVars, callVars>>

Companies == {1, 2}

Users == {7}

----------------------------------------------------------------------------
\* Values that are formatted into texts.  A text is a sequence of parts; an
\* int keeps its value and becomes a text only through str() or an f-string.

IntVal(n) == [type |-> "int", n |-> n]

StrVal(parts) == [type |-> "str", text |-> parts]

NoneVal == [type |-> "NoneType"]

\* str(x), also what an f-string replacement field does with x
str(x) ==
  IF x.type = "int" THEN StrVal(<<x.n>>)
  ELSE IF x.type = "NoneType" THEN StrVal(<<"None">>)
  ELSE x

\* bool(x)
truthy(x) ==
  \/ x.type = "int" /\ x.n # 0
  \/ x.type = "str" /\ x.text # <<>>

----------------------------------------------------------------------------
\* Ticket backend: POST /tickets/agent-create (src/txdxai/tickets/routes.py)

\* bearer tokens: a JWT the backend accepts, with its claims, or one it rejects
AgentToken(c) == [jwt_ok |-> TRUE, scopes |-> {"agent:invoke"}, company_id |-> c]

BadToken == [jwt_ok |-> FALSE, scopes |-> {}, company_id |-> 0]

\* the tokens a caller acting for company c holds: the one issued to it,
\* possibly expired or revoked by now
AuthTokens(c) == {AgentToken(c), BadToken}

\* agent_create_ticket: the response and the table afterwards; db_ok is
\* whether db.session.commit() succeeds
agent_create_ticket(token, data, db_ok, table) ==
  IF ~token.jwt_ok THEN [status |-> 401, json |-> EmptyDict, table |-> table]
  ELSE IF "agent:invoke" \notin token.scopes THEN [status |-> 403, json |-> EmptyDict, table |-> table]
  ELSE IF token.company_id = 0 THEN [status |-> 400, json |-> EmptyDict, table |-> table]
  ELSE IF data.subject = <<>> THEN [status |-> 400, json |-> EmptyDict, table |-> table]
  ELSE IF ~db_ok THEN [status |-> 500, json |-> EmptyDict, table |-> table]
  ELSE LET ticket == [id |-> Len(table) + 1,
                      company_id |-> token.company_id,
                      created_by_user_id |-> data.userId,
                      subject |-> data.subject,
                      description |-> data.description,
                      status |-> "PENDING"]
       IN [status |-> 201,
           json |-> [success |-> TRUE, ticket_id |-> IntVal(ticket.id)],
           table |-> Append(table, ticket)]

\* what the network does to one POST: deliver it and the response, fail
\* before the backend sees it, or time out with the backend's work done or not
NetOutcomes == {"ok", "connection_error", "timeout_unprocessed", "timeout_processed"}

----------------------------------------------------------------------------
\* Handoff (src/sophia_service/sophia/handoff.py, victor/client_stub.py)

Subject(ar) == <<"Solicitud de Accion de Seguridad: ", ar.action_type>>

Description(ar) ==
  <<"Accion solicitada por el usuario: ", ar.original_message,
    "Intencion detectada: ", ar.intent,
    "Tipo de accion: ", ar.action_type,
    "Parametros: ", ar.parameters,
    "Requiere escalacion: ", ar.requires_escalation>>

\* Optional[Dict] results
NoDict == [is_none |-> TRUE, dict |-> EmptyDict]

SomeDict(d) == [is_none |-> FALSE, dict |-> d]

\* `if d:` for an Optional[Dict]
dict_truthy(d) == ~d.is_none /\ DOMAIN d.dict # {}

\* _create_backend_ticket without its `except Exception`: an exception of
\* requests.post reaches the caller
_create_backend_ticket_uncaught(company_id, user_id, subject, description, sev, auth_token, metadata, net, db_ok, table) ==
  LET body == [subject |-> subject, description |-> description, userId |-> user_id,
               severity |-> sev, metadata |-> metadata]
      r == agent_create_ticket(auth_token, body, db_ok, table)
  IN CASE net = "connection_error" -> [raised |-> TRUE, ret |-> NoDict, table |-> table]
       [] net = "timeout_unprocessed" -> [raised |-> TRUE, ret |-> NoDict, table |-> table]
       [] net = "timeout_processed" -> [raised |-> TRUE, ret |-> NoDict, table |-> r.table]
       [] net = "ok" ->
            IF r.status = 201
              THEN [raised |-> FALSE, ret |-> SomeDict(r.json), table |-> r.table]
              ELSE [raised |-> FALSE, ret |-> NoDict, table |-> r.table]

\* handoff._create_backend_ticket: the returned Optional[Dict] (None on any
\* failure: every exception of the POST is caught) and the backend table
\* afterwards
_create_backend_ticket(company_id, user_id, subject, description, sev, auth_token, metadata, net, db_ok, table) ==
  LET body == [subject |-> subject, description |-> description, userId |-> user_id,
               severity |-> sev, metadata |-> metadata]
      r == agent_create_ticket(auth_token, body, db_ok, table)
  IN CASE net = "connection_error" -> [raised |-> FALSE, ret |-> NoDict, table |-> table]
       [] net = "timeout_unprocessed" -> [raised |-> FALSE, ret |-> NoDict, table |-> table]
       [] net = "timeout_processed" -> [raised |-> FALSE, ret |-> NoDict, table |-> r.table]
       [] net = "ok" ->
            IF r.status = 201
              THEN [raised |-> FALSE, ret |-> SomeDict(r.json), table |-> r.table]
              ELSE [raised |-> FALSE, ret |-> NoDict, table |-> r.table]

\* client_stub.send_ticket_to_victoria
send_ticket_to_victoria(ticket, hashes) ==
  [status |-> "pending",
   ticket_id |-> StrVal(<<"STUB-", ticket.company_id, "-", hashes[ticket.subject] % 10000>>),
   message |-> "Ticket created (stub mode - VictorIA not yet integrated)",
   estimated_response_time |-> "15 minutes"]

\* handoff._create_escalation_message_with_id: the fixed template and what
\* its three replacement fields are filled with
_create_escalation_message_with_id(ticket_id, sev, victoria_response) ==
  [template |-> "Este caso requiere intervencion de VictorIA",
   ticket_id |-> str(ticket_id),
   severity |-> sev,
   estimated_time |-> victoria_response.estimated_response_time]

\* handoff.create_ticket_stub
create_ticket_stub(ar, company_id, user_id, auth_token, context, net, db_ok, table, hashes) ==
  LET sev == _determine_severity(ar)
      subject == Subject(ar)
      description == Description(ar)
      b == _create_backend_ticket(company_id, user_id, subject, description, sev, auth_token,
                                  [action_type |-> ar.action_type,
                                   parameters |-> ar.parameters,
                                   created_by |-> "SOPHIA",
                                   auto_escalated |-> ar.requires_escalation],
                                  net, db_ok, table)
  IN IF b.raised THEN [raised |-> TRUE, table |-> b.table]
     ELSE IF dict_truthy(b.ret)
       THEN LET ticket_id == b.ret.dict.ticket_id
                victoria_response ==
                  [status |-> "pending",
                   ticket_id |-> str(ticket_id),
                   message |-> "Ticket created and escalated to VictorIA",
                   estimated_response_time |-> "15 minutes"]
            IN [raised |-> FALSE,
                ticket_id |-> ticket_id,
                victoria_response |-> victoria_response,
                escalation_message |->
                  _create_escalation_message_with_id(ticket_id, sev, victoria_response),
                table |-> b.table]
       ELSE LET ticket == [subject |-> subject, description |-> description, severity |-> sev,
                           context |-> context, company_id |-> company_id,
                           user_id |-> user_id, metadata |-> EmptyDict]
                victoria_response == send_ticket_to_victoria(ticket, hashes)
                ticket_id == victoria_response.ticket_id
            IN [raised |-> FALSE,
                ticket_id |-> ticket_id,
                victoria_response |-> victoria_response,
                escalation_message |->
                  _create_escalation_message_with_id(ticket_id, sev, victoria_response),
                table |-> b.table]

\* keyword parameters of create_ticket_stub that have no default
create_ticket_stub_required == {"action_request", "company_id", "user_id", "auth_token"}

\* binding of a keyword-argument call of create_ticket_stub: a required
\* parameter that is not passed raises TypeError before the body runs
call_create_ticket_stub(kwargs, net, db_ok, table, hashes) ==
  IF create_ticket_stub_required \subseteq DOMAIN kwargs
    THEN create_ticket_stub(kwargs.action_request, kwargs.company_id, kwargs.user_id,
                            kwargs.auth_token,
                            IF "context" \in DOMAIN kwargs THEN kwargs.context ELSE EmptyDict,
                            net, db_ok, table, hashes)
    ELSE [raised |-> TRUE, table |-> table]

----------------------------------------------------------------------------
\* MemoryManager (src/sophia_service/sophia/memory.py)

\* values secrets.token_hex(8) can take
TokenHex == {"a1", "b2"}

\* f"thread_{company_id}_{secrets.token_hex(8)}"
ThreadId(company_id, hex) == <<"thread_", company_id, "_", hex>>

ThreadIds == {ThreadId(c, h) : c \in Companies, h \in TokenHex}

\* dict operations
DictSet(d, k, v) == [x \in DOMAIN d \cup {k} |-> IF x = k THEN v ELSE d[x]]

DictDel(d, k) == [x \in DOMAIN d \ {k} |-> d[x]]

\* datetime.isoformat(): the ISO-8601 text of an instant, a string
isoformat(t) == [iso8601 |-> t]

\* datetime.fromisoformat(): the instant an ISO-8601 text denotes
fromisoformat(text) == text.iso8601

\* ConversationContext.add_message, utcnow being what datetime.utcnow() returns
ConversationContext_add_message(context, role, content, utcnow) ==
  [context EXCEPT
     !.messages = Append(@, [role |-> role, content |-> content,
                             timestamp |-> isoformat(utcnow)]),
     !.last_updated = utcnow]

\* MemoryManager.create_thread with the token drawn by secrets.token_hex
create_thread(sessions, company_threads, company_id, user_id, hex, utcnow) ==
  LET thread_id == ThreadId(company_id, hex)
      context == [thread_id |-> thread_id, company_id |-> company_id, user_id |-> user_id,
                  messages |-> <<>>, created_at |-> utcnow, last_updated |-> utcnow]
      listed == IF company_id \in DOMAIN company_threads
                  THEN company_threads[company_id] ELSE <<>>
  IN [thread_id |-> thread_id,
      sessions |-> DictSet(sessions, thread_id, context),
      company_threads |-> DictSet(company_threads, company_id, Append(listed, thread_id))]

\* MemoryManager.add_message: a thread that does not exist is left alone
add_message(sessions, thread_id, role, content, utcnow) ==
  IF thread_id \in DOMAIN sessions
    THEN [sessions EXCEPT ![thread_id] =
            ConversationContext_add_message(@, role, content, utcnow)]
    ELSE sessions

\* clear_thread that forgets the company index
clear_thread_primary_only(sessions, company_threads, thread_id) ==
  IF thread_id \in DOMAIN sessions
    THEN [sessions |-> DictDel(sessions, thread_id), company_threads |-> company_threads]
    ELSE [sessions |-> sessions, company_threads |-> company_threads]

\* MemoryManager.clear_thread
clear_thread(sessions, company_threads, thread_id) ==
  IF thread_id \in DOMAIN sessions
    THEN LET company_id == sessions[thread_id].company_id
         IN [sessions |-> DictDel(sessions, thread_id),
             company_threads |->
               IF company_id \in DOMAIN company_threads
                 THEN [company_threads EXCEPT ![company_id] =
                         SelectSeq(@, LAMBDA tid : tid # thread_id)]
                 ELSE company_threads]
    ELSE [sessions |-> sessions, company_threads |-> company_threads]

\* Optional[ConversationContext]
NoContext == [is_none |-> TRUE]

SomeContext(context) == [is_none |-> FALSE, context |-> context]

\* MemoryManager.get_context
MemoryManager_get_context(sessions, thread_id) ==
  IF thread_id \in DOMAIN sessions THEN SomeContext(sessions[thread_id]) ELSE NoContext

\* MemoryManager.get_company_threads
get_company_threads(company_threads, company_id) ==
  IF company_id \in DOMAIN company_threads THEN company_threads[company_id] ELSE <<>>

\* the elements of a list
Elements(list) == {list[i] : i \in DOMAIN list}

\* clear_company_threads that drops the index and keeps the contexts
clear_company_threads_index_only(sessions, company_threads, company_id) ==
  [sessions |-> sessions, company_threads |-> DictDel(company_threads, company_id)]

\* MemoryManager.clear_company_threads
clear_company_threads(sessions, company_threads, company_id) ==
  [sessions |-> [t \in DOMAIN sessions \ Elements(get_company_threads(company_threads, company_id))
                   |-> sessions[t]],
   company_threads |-> DictDel(company_threads, company_id)]

----------------------------------------------------------------------------
\* AgentLoader and RAGTool (sophia/agent_loader.py, sophia/rag_tools.py)

\* agent_instance metadata the backend can hand out; "" stands for a missing
\* or empty value
NoCredentials ==
  [azure_project_id |-> "", azure_agent_id |-> "", azure_openai_endpoint |-> "",
   azure_openai_key |-> "", azure_openai_deployment |-> "", azure_search_endpoint |-> "",
   azure_search_key |-> ""]

FullCredentials ==
  [azure_project_id |-> "proj", azure_agent_id |-> "agent-x",
   azure_openai_endpoint |-> "https://openai", azure_openai_key |-> "key",
   azure_openai_deployment |-> "gpt-4o-mini", azure_search_endpoint |-> "https://search",
   azure_search_key |-> "skey"]

AzureConfigs == {NoCredentials, FullCredentials}

\* RAGTool.__init__: the search client exists only with both credentials and
\* an importable, constructible SearchClient
RAGTool(search_endpoint, search_key, search_sdk) ==
  [search_endpoint |-> search_endpoint,
   search_key |-> search_key,
   index_name |-> "knowledge-base",
   search_client |-> search_endpoint # "" /\ search_key # "" /\ search_sdk]

\* AgentLoader._initialize_azure_agent
_initialize_azure_agent(company_id, azure_config, projects_sdk) ==
  IF ~projects_sdk THEN NoDict
  ELSE IF azure_config.azure_project_id = "" THEN NoDict
  ELSE SomeDict(
         [agent_id |-> IF azure_config.azure_agent_id # ""
                         THEN StrVal(<<azure_config.azure_agent_id>>)
                         ELSE StrVal(<<"azure-agent-", company_id>>),
          mode |-> "azure",
          company_id |-> company_id,
          deployment |-> azure_config.azure_openai_deployment,
          endpoint |-> azure_config.azure_openai_endpoint,
          project_id |-> azure_config.azure_project_id,
          has_rag |-> azure_config.azure_search_endpoint # ""])

\* initialize_agent without its `if agent_key in self._agents` return: the
\* agent and the RAG tool are built again on every call
initialize_agent_rebuilding(agents, rag_tools, company_id, azure_config, projects_sdk, search_sdk) ==
  LET rag_tool == RAGTool(azure_config.azure_search_endpoint,
                          azure_config.azure_search_key, search_sdk)
      rag2 == DictSet(rag_tools, company_id, rag_tool)
      agent_info ==
        IF azure_config.azure_openai_endpoint # "" /\ azure_config.azure_openai_key # ""
          THEN _initialize_azure_agent(company_id, azure_config, projects_sdk)
          ELSE NoDict
      mock_agent ==
        [agent_id |-> StrVal(<<"mock-agent-", company_id>>),
         mode |-> "mock",
         company_id |-> company_id,
         deployment |-> azure_config.azure_openai_deployment,
         has_rag |-> azure_config.azure_search_endpoint # ""
                     /\ azure_config.azure_search_key # ""]
  IN IF dict_truthy(agent_info)
       THEN [agent_id |-> agent_info.dict.agent_id,
             agents |-> DictSet(agents, company_id, agent_info.dict),
             rag_tools |-> rag2]
       ELSE [agent_id |-> mock_agent.agent_id,
             agents |-> DictSet(agents, company_id, mock_agent),
             rag_tools |-> rag2]

\* AgentLoader.initialize_agent
initialize_agent(agents, rag_tools, company_id, azure_config, projects_sdk, search_sdk) ==
  IF company_id \in DOMAIN agents
    THEN [agent_id |-> agents[company_id].agent_id, agents |-> agents, rag_tools |-> rag_tools]
    ELSE
      LET rag_tool == RAGTool(azure_config.azure_search_endpoint,
                              azure_config.azure_search_key, search_sdk)
          rag2 == DictSet(rag_tools, company_id, rag_tool)
          agent_info ==
            IF azure_config.azure_openai_endpoint # "" /\ azure_config.azure_openai_key # ""
              THEN _initialize_azure_agent(company_id, azure_config, projects_sdk)
              ELSE NoDict
          mock_agent ==
            [agent_id |-> StrVal(<<"mock-agent-", company_id>>),
             mode |-> "mock",
             company_id |-> company_id,
             deployment |-> azure_config.azure_openai_deployment,
             has_rag |-> azure_config.azure_search_endpoint # ""
                         /\ azure_config.azure_search_key # ""]
      IN IF dict_truthy(agent_info)
           THEN [agent_id |-> agent_info.dict.agent_id,
                 agents |-> DictSet(agents, company_id, agent_info.dict),
                 rag_tools |-> rag2]
           ELSE [agent_id |-> mock_agent.agent_id,
                 agents |-> DictSet(agents, company_id, mock_agent),
                 rag_tools |-> rag2]

\* clear_agent that empties both maps
clear_agent_of_all(agents, rag_tools, company_id) ==
  [agents |-> EmptyDict, rag_tools |-> EmptyDict]

\* AgentLoader.clear_agent
clear_agent(agents, rag_tools, company_id) ==
  [agents |-> DictDel(agents, company_id), rag_tools |-> DictDel(rag_tools, company_id)]

\* AgentLoader.refresh_agent
refresh_agent(agents, rag_tools, company_id, azure_config, projects_sdk, search_sdk) ==
  initialize_agent(clear_agent(agents, rag_tools, company_id).agents,
                   clear_agent(agents, rag_tools, company_id).rag_tools,
                   company_id, azure_config, projects_sdk, search_sdk)

\* AgentLoader.is_mock_mode
is_mock_mode(agents, company_id) ==
  IF company_id \in DOMAIN agents THEN agents[company_id].mode = "mock" ELSE TRUE

----------------------------------------------------------------------------
\* Configuration cache (src/sophia_service/config.py)

\* SophiaConfig.CACHE_TTL_SECONDS, read from the environment (3600 unless set):
\* kept below MaxTime so that entries can be seen to expire
CACHE_TTL_SECONDS == 0

\* f"company-{company_id}"
CacheKey(company_id) == <<"company-", company_id>>

\* ConfigCache.invalidate
ConfigCache_invalidate(cache, timestamps, company_id) ==
  [cache |-> DictDel(cache, CacheKey(company_id)),
   timestamps |-> DictDel(timestamps, CacheKey(company_id))]

\* a get that sweeps every entry older than the TTL, whoever it belongs to
ConfigCache_get_sweeping(cache, timestamps, company_id, utcnow) ==
  [value |-> IF CacheKey(company_id) \in DOMAIN cache
                  /\ utcnow - timestamps[CacheKey(company_id)] <= CACHE_TTL_SECONDS
               THEN SomeDict(cache[CacheKey(company_id)]) ELSE NoDict,
   cache |-> [k \in {x \in DOMAIN cache : utcnow - timestamps[x] <= CACHE_TTL_SECONDS} |-> cache[k]],
   timestamps |-> [k \in {x \in DOMAIN cache : utcnow - timestamps[x] <= CACHE_TTL_SECONDS}
                     |-> timestamps[k]]]

\* ConfigCache.get: value is the Optional[Dict] returned
ConfigCache_get(cache, timestamps, company_id, utcnow) ==
  IF CacheKey(company_id) \notin DOMAIN cache
    THEN [value |-> NoDict, cache |-> cache, timestamps |-> timestamps]
  ELSE IF CacheKey(company_id) \in DOMAIN timestamps
          /\ utcnow - timestamps[CacheKey(company_id)] > CACHE_TTL_SECONDS
    THEN [value |-> NoDict] @@ ConfigCache_invalidate(cache, timestamps, company_id)
  ELSE [value |-> SomeDict(cache[CacheKey(company_id)]), cache |-> cache,
        timestamps |-> timestamps]

\* ConfigCache.set
ConfigCache_set(cache, timestamps, company_id, config, utcnow) ==
  [cache |-> DictSet(cache, CacheKey(company_id), config),
   timestamps |-> DictSet(timestamps, CacheKey(company_id), utcnow)]

\* ConfigCache.invalidate_all
ConfigCache_invalidate_all == [cache |-> EmptyDict, timestamps |-> EmptyDict]

\* ConfigCache.get_stats: companies are the keys, here without their order
ConfigCache_get_stats(cache) ==
  [total_entries |-> Cardinality(DOMAIN cache),
   ttl_seconds |-> CACHE_TTL_SECONDS,
   companies |-> DOMAIN cache]

----------------------------------------------------------------------------
\* Request handling (src/sophia_service/app.py)

\* string literals of process_user_message
kw_alert == <<"a","l","e","r","t">>

kw_palo == <<"p","a","l","o">>

kw_log == <<"l","o","g">>

kw_splunk == <<"s","p","l","u","n","k">>

kw_metric == <<"m","e","t","r","i","c">>

kw_grafana == <<"g","r","a","f","a","n","a">>

kw_wazuh == <<"w","a","z","u","h">>

kw_meraki == <<"m","e","r","a","k","i">>

kw_network == <<"n","e","t","w","o","r","k">>

\* "block IP 10.0.0.5"
msg_block_ip == <<"b","l","o","c","k"," ","I","P"," ","1","0",".","0",".","0",".","5">>

\* "run backup"
msg_run_backup == <<"r","u","n"," ","b","a","c","k","u","p">>

\* "show network alerts"
msg_show_alerts == <<"s","h","o","w"," ","n","e","t","w","o","r","k"," ","a","l","e","r","t","s">>

\* messages sent to POST /chat; the empty one fails the required-field check
ChatMessages == {msg_block_ip, msg_show_alerts, <<>>}

----------------------------------------------------------------------------
\* Local knowledge search (RAGTool._search_mock, sophia/rag_tools.py)

\* "Resumen de SOPHIA" (sophia): 
\*   SOPHIA es un agente de IA multi-tenant para operaciones de ciberseguridad. Puede analizar
\*   alertas de seguridad, proporcionar inteligencia de amenazas y coordinar la respuesta a
\*   incidentes.
doc_sophia ==
  [content |->
     <<"S","O","P","H","I","A"," ","e","s"," ","u","n"," ","a","g","e","n","t","e"," ","d","e"," ","I",
       "A"," ","m","u","l","t","i","-","t","e","n","a","n","t"," ","p","a","r","a"," ","o","p","e","r",
       "a","c","i","o","n","e","s"," ","d","e"," ","c","i","b","e","r","s","e","g","u","r","i","d","a",
       "d","."," ","P","u","e","d","e"," ","a","n","a","l","i","z","a","r"," ","a","l","e","r","t","a",
       "s"," ","d","e"," ","s","e","g","u","r","i","d","a","d",","," ","p","r","o","p","o","r","c","i",
       "o","n","a","r"," ","i","n","t","e","l","i","g","e","n","c","i","a"," ","d","e"," ","a","m","e",
       "n","a","z","a","s"," ","y"," ","c","o","o","r","d","i","n","a","r"," ","l","a"," ","r","e","s",
       "p","u","e","s","t","a"," ","a"," ","i","n","c","i","d","e","n","t","e","s",".">>,
   title |->
     <<"R","e","s","u","m","e","n"," ","d","e"," ","S","O","P","H","I","A">>,
   score |-> 95,
   metadata |-> [source |-> "documentation", category |-> "sophia"]]

\* "Que es un Firewall?" (concepts): 
\*   Un firewall es un sistema de seguridad de red que monitorea y controla el trafico entrante
\*   y saliente basandose en reglas de seguridad predeterminadas. Actua como una barrera entre
\*   una red interna confiable y redes externas no confiables como Internet. Los firewalls
\*   pueden ser de hardware, software o una combinacion de ambos. Funciones principales:
\*   filtrado de paquetes, inspeccion de estado, prevencion de intrusiones y control de
\*   aplicaciones.
doc_firewall ==
  [content |->
     <<"U","n"," ","f","i","r","e","w","a","l","l"," ","e","s"," ","u","n"," ","s","i","s","t","e","m",
       "a"," ","d","e"," ","s","e","g","u","r","i","d","a","d"," ","d","e"," ","r","e","d"," ","q","u",
       "e"," ","m","o","n","i","t","o","r","e","a"," ","y"," ","c","o","n","t","r","o","l","a"," ","e",
       "l"," ","t","r","a_acute","f","i","c","o"," ","e","n","t","r","a","n","t","e"," ","y"," ","s",
       "a","l","i","e","n","t","e"," ","b","a","s","a_acute","n","d","o","s","e"," ","e","n"," ","r",
       "e","g","l","a","s"," ","d","e"," ","s","e","g","u","r","i","d","a","d"," ","p","r","e","d","e",
       "t","e","r","m","i","n","a","d","a","s","."," ","A","c","t","u_acute","a"," ","c","o","m","o",
       " ","u","n","a"," ","b","a","r","r","e","r","a"," ","e","n","t","r","e"," ","u","n","a"," ","r",
       "e","d"," ","i","n","t","e","r","n","a"," ","c","o","n","f","i","a","b","l","e"," ","y"," ","r",
       "e","d","e","s"," ","e","x","t","e","r","n","a","s"," ","n","o"," ","c","o","n","f","i","a","b",
       "l","e","s"," ","c","o","m","o"," ","I","n","t","e","r","n","e","t","."," ","L","o","s"," ","f",
       "i","r","e","w","a","l","l","s"," ","p","u","e","d","e","n"," ","s","e","r"," ","d","e"," ","h",
       "a","r","d","w","a","r","e",","," ","s","o","f","t","w","a","r","e"," ","o"," ","u","n","a"," ",
       "c","o","m","b","i","n","a","c","i","o_acute","n"," ","d","e"," ","a","m","b","o","s","."," ",
       "F","u","n","c","i","o","n","e","s"," ","p","r","i","n","c","i","p","a","l","e","s",":"," ","f",
       "i","l","t","r","a","d","o"," ","d","e"," ","p","a","q","u","e","t","e","s",","," ","i","n","s",
       "p","e","c","c","i","o_acute","n"," ","d","e"," ","e","s","t","a","d","o",","," ","p","r","e",
       "v","e","n","c","i","o_acute","n"," ","d","e"," ","i","n","t","r","u","s","i","o","n","e","s",
       " ","y"," ","c","o","n","t","r","o","l"," ","d","e"," ","a","p","l","i","c","a","c","i","o","n",
       "e","s",".">>,
   title |->
     <<"inverted_question","Q","u","e_acute"," ","e","s"," ","u","n"," ","F","i","r","e","w","a","l",
       "l","?">>,
   score |-> 92,
   metadata |-> [source |-> "education", category |-> "concepts"]]

\* "Procedimientos de Bloqueo de IP" (procedures): 
\*   Para bloquear una direccion IP, necesitas configurar reglas de firewall. Esta accion
\*   requiere aprobacion de VictorIA para cumplir con las politicas de seguridad.
doc_block_ip ==
  [content |->
     <<"P","a","r","a"," ","b","l","o","q","u","e","a","r"," ","u","n","a"," ","d","i","r","e","c","c",
       "i","o_acute","n"," ","I","P",","," ","n","e","c","e","s","i","t","a","s"," ","c","o","n","f",
       "i","g","u","r","a","r"," ","r","e","g","l","a","s"," ","d","e"," ","f","i","r","e","w","a","l",
       "l","."," ","E","s","t","a"," ","a","c","c","i","o_acute","n"," ","r","e","q","u","i","e","r",
       "e"," ","a","p","r","o","b","a","c","i","o_acute","n"," ","d","e"," ","V","i","c","t","o","r",
       "I","A"," ","p","a","r","a"," ","c","u","m","p","l","i","r"," ","c","o","n"," ","l","a","s"," ",
       "p","o","l","i_acute","t","i","c","a","s"," ","d","e"," ","s","e","g","u","r","i","d","a","d",
       ".">>,
   title |->
     <<"P","r","o","c","e","d","i","m","i","e","n","t","o","s"," ","d","e"," ","B","l","o","q","u","e",
       "o"," ","d","e"," ","I","P">>,
   score |-> 88,
   metadata |-> [source |-> "security-procedures", category |-> "procedures"]]

\* "IDS vs IPS" (concepts): 
\*   Un IDS (Sistema de Deteccion de Intrusiones) es una herramienta de seguridad que monitorea
\*   el trafico de red en busca de actividades sospechosas y violaciones de politicas. A
\*   diferencia de un firewall que bloquea el trafico, un IDS solo detecta y alerta sobre
\*   amenazas. Un IPS (Sistema de Prevencion de Intrusiones) va un paso mas alla al detectar Y
\*   bloquear automaticamente las amenazas.
doc_ids_ips ==
  [content |->
     <<"U","n"," ","I","D","S"," ","(","S","i","s","t","e","m","a"," ","d","e"," ","D","e","t","e","c",
       "c","i","o_acute","n"," ","d","e"," ","I","n","t","r","u","s","i","o","n","e","s",")"," ","e",
       "s"," ","u","n","a"," ","h","e","r","r","a","m","i","e","n","t","a"," ","d","e"," ","s","e","g",
       "u","r","i","d","a","d"," ","q","u","e"," ","m","o","n","i","t","o","r","e","a"," ","e","l"," ",
       "t","r","a_acute","f","i","c","o"," ","d","e"," ","r","e","d"," ","e","n"," ","b","u","s","c",
       "a"," ","d","e"," ","a","c","t","i","v","i","d","a","d","e","s"," ","s","o","s","p","e","c","h",
       "o","s","a","s"," ","y"," ","v","i","o","l","a","c","i","o","n","e","s"," ","d","e"," ","p","o",
       "l","i_acute","t","i","c","a","s","."," ","A"," ","d","i","f","e","r","e","n","c","i","a"," ",
       "d","e"," ","u","n"," ","f","i","r","e","w","a","l","l"," ","q","u","e"," ","b","l","o","q","u",
       "e","a"," ","e","l"," ","t","r","a_acute","f","i","c","o",","," ","u","n"," ","I","D","S"," ",
       "s","o","l","o"," ","d","e","t","e","c","t","a"," ","y"," ","a","l","e","r","t","a"," ","s","o",
       "b","r","e"," ","a","m","e","n","a","z","a","s","."," ","U","n"," ","I","P","S"," ","(","S","i",
       "s","t","e","m","a"," ","d","e"," ","P","r","e","v","e","n","c","i","o_acute","n"," ","d","e",
       " ","I","n","t","r","u","s","i","o","n","e","s",")"," ","v","a"," ","u","n"," ","p","a","s","o",
       " ","m","a_acute","s"," ","a","l","l","a_acute"," ","a","l"," ","d","e","t","e","c","t","a","r",
       " ","Y"," ","b","l","o","q","u","e","a","r"," ","a","u","t","o","m","a_acute","t","i","c","a",
       "m","e","n","t","e"," ","l","a","s"," ","a","m","e","n","a","z","a","s",".">>,
   title |->
     <<"I","D","S"," ","v","s"," ","I","P","S">>,
   score |-> 90,
   metadata |-> [source |-> "education", category |-> "concepts"]]

\* "Ataques DDoS" (threats): 
\*   Un ataque DDoS (Distributed Denial of Service) es un intento malicioso de interrumpir el
\*   trafico normal de un servidor, servicio o red inundandolo con trafico de Internet. Los
\*   ataques DDoS utilizan multiples sistemas comprometidos como fuentes de trafico de ataque.
\*   Las defensas incluyen rate limiting, filtrado de trafico, CDN y servicios anti-DDoS
\*   especializados.
doc_ddos ==
  [content |->
     <<"U","n"," ","a","t","a","q","u","e"," ","D","D","o","S"," ","(","D","i","s","t","r","i","b","u",
       "t","e","d"," ","D","e","n","i","a","l"," ","o","f"," ","S","e","r","v","i","c","e",")"," ","e",
       "s"," ","u","n"," ","i","n","t","e","n","t","o"," ","m","a","l","i","c","i","o","s","o"," ","d",
       "e"," ","i","n","t","e","r","r","u","m","p","i","r"," ","e","l"," ","t","r","a_acute","f","i",
       "c","o"," ","n","o","r","m","a","l"," ","d","e"," ","u","n"," ","s","e","r","v","i","d","o","r",
       ","," ","s","e","r","v","i","c","i","o"," ","o"," ","r","e","d"," ","i","n","u","n","d",
       "a_acute","n","d","o","l","o"," ","c","o","n"," ","t","r","a_acute","f","i","c","o"," ","d","e",
       " ","I","n","t","e","r","n","e","t","."," ","L","o","s"," ","a","t","a","q","u","e","s"," ","D",
       "D","o","S"," ","u","t","i","l","i","z","a","n"," ","m","u_acute","l","t","i","p","l","e","s",
       " ","s","i","s","t","e","m","a","s"," ","c","o","m","p","r","o","m","e","t","i","d","o","s"," ",
       "c","o","m","o"," ","f","u","e","n","t","e","s"," ","d","e"," ","t","r","a_acute","f","i","c",
       "o"," ","d","e"," ","a","t","a","q","u","e","."," ","L","a","s"," ","d","e","f","e","n","s","a",
       "s"," ","i","n","c","l","u","y","e","n"," ","r","a","t","e"," ","l","i","m","i","t","i","n","g",
       ","," ","f","i","l","t","r","a","d","o"," ","d","e"," ","t","r","a_acute","f","i","c","o",",",
       " ","C","D","N"," ","y"," ","s","e","r","v","i","c","i","o","s"," ","a","n","t","i","-","D","D",
       "o","S"," ","e","s","p","e","c","i","a","l","i","z","a","d","o","s",".">>,
   title |->
     <<"A","t","a","q","u","e","s"," ","D","D","o","S">>,
   score |-> 89,
   metadata |-> [source |-> "education", category |-> "threats"]]

\* "Fuentes de Alertas de Seguridad" (alerts): 
\*   Las alertas de seguridad pueden obtenerse desde Palo Alto Networks, Splunk, Wazuh y otras
\*   herramientas de seguridad integradas.
doc_alerts ==
  [content |->
     <<"L","a","s"," ","a","l","e","r","t","a","s"," ","d","e"," ","s","e","g","u","r","i","d","a","d",
       " ","p","u","e","d","e","n"," ","o","b","t","e","n","e","r","s","e"," ","d","e","s","d","e"," ",
       "P","a","l","o"," ","A","l","t","o"," ","N","e","t","w","o","r","k","s",","," ","S","p","l","u",
       "n","k",","," ","W","a","z","u","h"," ","y"," ","o","t","r","a","s"," ","h","e","r","r","a","m",
       "i","e","n","t","a","s"," ","d","e"," ","s","e","g","u","r","i","d","a","d"," ","i","n","t","e",
       "g","r","a","d","a","s",".">>,
   title |->
     <<"F","u","e","n","t","e","s"," ","d","e"," ","A","l","e","r","t","a","s"," ","d","e"," ","S","e",
       "g","u","r","i","d","a","d">>,
   score |-> 82,
   metadata |-> [source |-> "integrations", category |-> "alerts"]]

\* "Politica de Escalacion de Acciones de Seguridad" (escalation): 
\*   Las acciones de seguridad de alto riesgo como cuarentena de dispositivos, aislamiento de
\*   red o apagado de sistemas requieren aprobacion manual a traves de escalacion a VictorIA.
doc_escalation ==
  [content |->
     <<"L","a","s"," ","a","c","c","i","o","n","e","s"," ","d","e"," ","s","e","g","u","r","i","d","a",
       "d"," ","d","e"," ","a","l","t","o"," ","r","i","e","s","g","o"," ","c","o","m","o"," ","c","u",
       "a","r","e","n","t","e","n","a"," ","d","e"," ","d","i","s","p","o","s","i","t","i","v","o","s",
       ","," ","a","i","s","l","a","m","i","e","n","t","o"," ","d","e"," ","r","e","d"," ","o"," ","a",
       "p","a","g","a","d","o"," ","d","e"," ","s","i","s","t","e","m","a","s"," ","r","e","q","u","i",
       "e","r","e","n"," ","a","p","r","o","b","a","c","i","o_acute","n"," ","m","a","n","u","a","l",
       " ","a"," ","t","r","a","v","e_acute","s"," ","d","e"," ","e","s","c","a","l","a","c","i",
       "o_acute","n"," ","a"," ","V","i","c","t","o","r","I","A",".">>,
   title |->
     <<"P","o","l","i_acute","t","i","c","a"," ","d","e"," ","E","s","c","a","l","a","c","i","o_acute",
       "n"," ","d","e"," ","A","c","c","i","o","n","e","s"," ","d","e"," ","S","e","g","u","r","i","d",
       "a","d">>,
   score |-> 79,
   metadata |-> [source |-> "policies", category |-> "escalation"]]

\* "Monitoreo de Sistemas" (metrics): 
\*   Las metricas del sistema y datos de rendimiento pueden monitorearse a traves de dashboards
\*   de Grafana. Las metricas clave incluyen CPU, memoria, uso de disco y throughput de red.
doc_metrics ==
  [content |->
     <<"L","a","s"," ","m","e_acute","t","r","i","c","a","s"," ","d","e","l"," ","s","i","s","t","e",
       "m","a"," ","y"," ","d","a","t","o","s"," ","d","e"," ","r","e","n","d","i","m","i","e","n","t",
       "o"," ","p","u","e","d","e","n"," ","m","o","n","i","t","o","r","e","a","r","s","e"," ","a"," ",
       "t","r","a","v","e_acute","s"," ","d","e"," ","d","a","s","h","b","o","a","r","d","s"," ","d",
       "e"," ","G","r","a","f","a","n","a","."," ","L","a","s"," ","m","e_acute","t","r","i","c","a",
       "s"," ","c","l","a","v","e"," ","i","n","c","l","u","y","e","n"," ","C","P","U",","," ","m","e",
       "m","o","r","i","a",","," ","u","s","o"," ","d","e"," ","d","i","s","c","o"," ","y"," ","t","h",
       "r","o","u","g","h","p","u","t"," ","d","e"," ","r","e","d",".">>,
   title |->
     <<"M","o","n","i","t","o","r","e","o"," ","d","e"," ","S","i","s","t","e","m","a","s">>,
   score |-> 75,
   metadata |-> [source |-> "monitoring", category |-> "metrics"]]

\* "Ransomware" (threats): 
\*   Un ransomware es un tipo de malware que cifra los archivos de la victima y exige un pago
\*   (rescate) para restaurar el acceso. Las medidas preventivas incluyen: backups regulares,
\*   actualizaciones de seguridad, educacion de usuarios, segmentacion de red y sistemas de
\*   deteccion de comportamiento anomalo.
doc_ransomware ==
  [content |->
     <<"U","n"," ","r","a","n","s","o","m","w","a","r","e"," ","e","s"," ","u","n"," ","t","i","p","o",
       " ","d","e"," ","m","a","l","w","a","r","e"," ","q","u","e"," ","c","i","f","r","a"," ","l","o",
       "s"," ","a","r","c","h","i","v","o","s"," ","d","e"," ","l","a"," ","v","i_acute","c","t","i",
       "m","a"," ","y"," ","e","x","i","g","e"," ","u","n"," ","p","a","g","o"," ","(","r","e","s","c",
       "a","t","e",")"," ","p","a","r","a"," ","r","e","s","t","a","u","r","a","r"," ","e","l"," ","a",
       "c","c","e","s","o","."," ","L","a","s"," ","m","e","d","i","d","a","s"," ","p","r","e","v","e",
       "n","t","i","v","a","s"," ","i","n","c","l","u","y","e","n",":"," ","b","a","c","k","u","p","s",
       " ","r","e","g","u","l","a","r","e","s",","," ","a","c","t","u","a","l","i","z","a","c","i","o",
       "n","e","s"," ","d","e"," ","s","e","g","u","r","i","d","a","d",","," ","e","d","u","c","a","c",
       "i","o_acute","n"," ","d","e"," ","u","s","u","a","r","i","o","s",","," ","s","e","g","m","e",
       "n","t","a","c","i","o_acute","n"," ","d","e"," ","r","e","d"," ","y"," ","s","i","s","t","e",
       "m","a","s"," ","d","e"," ","d","e","t","e","c","c","i","o_acute","n"," ","d","e"," ","c","o",
       "m","p","o","r","t","a","m","i","e","n","t","o"," ","a","n","o_acute","m","a","l","o",".">>,
   title |->
     <<"R","a","n","s","o","m","w","a","r","e">>,
   score |-> 87,
   metadata |-> [source |-> "education", category |-> "threats"]]

\* "Autenticacion Multifactor (MFA)" (concepts): 
\*   La autenticacion multifactor (MFA) es un metodo de seguridad que requiere que los usuarios
\*   proporcionen dos o mas factores de verificacion para acceder a un recurso. Los factores
\*   pueden ser: algo que sabes (contrasena), algo que tienes (token/telefono), o algo que eres
\*   (biometria). MFA reduce significativamente el riesgo de acceso no autorizado.
doc_mfa ==
  [content |->
     <<"L","a"," ","a","u","t","e","n","t","i","c","a","c","i","o_acute","n"," ","m","u","l","t","i",
       "f","a","c","t","o","r"," ","(","M","F","A",")"," ","e","s"," ","u","n"," ","m","e_acute","t",
       "o","d","o"," ","d","e"," ","s","e","g","u","r","i","d","a","d"," ","q","u","e"," ","r","e","q",
       "u","i","e","r","e"," ","q","u","e"," ","l","o","s"," ","u","s","u","a","r","i","o","s"," ","p",
       "r","o","p","o","r","c","i","o","n","e","n"," ","d","o","s"," ","o"," ","m","a_acute","s"," ",
       "f","a","c","t","o","r","e","s"," ","d","e"," ","v","e","r","i","f","i","c","a","c","i",
       "o_acute","n"," ","p","a","r","a"," ","a","c","c","e","d","e","r"," ","a"," ","u","n"," ","r",
       "e","c","u","r","s","o","."," ","L","o","s"," ","f","a","c","t","o","r","e","s"," ","p","u","e",
       "d","e","n"," ","s","e","r",":"," ","a","l","g","o"," ","q","u","e"," ","s","a","b","e","s"," ",
       "(","c","o","n","t","r","a","s","e","n_tilde","a",")",","," ","a","l","g","o"," ","q","u","e",
       " ","t","i","e","n","e","s"," ","(","t","o","k","e","n","/","t","e","l","e_acute","f","o","n",
       "o",")",","," ","o"," ","a","l","g","o"," ","q","u","e"," ","e","r","e","s"," ","(","b","i","o",
       "m","e","t","r","i_acute","a",")","."," ","M","F","A"," ","r","e","d","u","c","e"," ","s","i",
       "g","n","i","f","i","c","a","t","i","v","a","m","e","n","t","e"," ","e","l"," ","r","i","e","s",
       "g","o"," ","d","e"," ","a","c","c","e","s","o"," ","n","o"," ","a","u","t","o","r","i","z","a",
       "d","o",".">>,
   title |->
     <<"A","u","t","e","n","t","i","c","a","c","i","o_acute","n"," ","M","u","l","t","i","f","a","c",
       "t","o","r"," ","(","M","F","A",")">>,
   score |-> 86,
   metadata |-> [source |-> "education", category |-> "concepts"]]

\* mock_knowledge of RAGTool._search_mock, in corpus order; score is in hundredths
mock_knowledge ==
  <<doc_sophia, doc_firewall, doc_block_ip, doc_ids_ips, doc_ddos,
    doc_alerts, doc_escalation, doc_metrics, doc_ransomware, doc_mfa>>

\* 'me'trica', the query literal of the metrics bonus
kw_metrica == <<"m","e_acute","t","r","i","c","a">>

\* the phrases that mark an explanatory question
explanatory_phrases ==
  {<<"q","u","e_acute"," ","e","s">>,
   <<"q","u","e"," ","e","s">>,
   <<"w","h","a","t"," ","i","s">>,
   <<"c","o_acute","m","o"," ","f","u","n","c","i","o","n","a">>,
   <<"e","x","p","l","i","c","a">>,
   <<"e","x","p","l","a","i","n">>}

\* (doc["content"] + " " + doc["title"]).lower()
doc_text(doc) == lower(doc.content \o <<" ">> \o doc.title)

\* sum(1 for word in query_words if word in doc_text and len(word) > 2)
keyword_matches(query_words, text) ==
  Cardinality({i \in 1..Len(query_words) : Contains(query_words[i], text) /\ Len(query_words[i]) > 2})

\* bonus for exact phrase match
phrase_bonus(query_lower, text) == IF Contains(query_lower, text) THEN 10 ELSE 0

\* bonus for category match
category_bonus(query_lower, category) ==
  IF Contains(kw_metrica, query_lower) /\ category = "metrics" THEN 5
  ELSE IF Contains(kw_alert, query_lower) /\ category = "alerts" THEN 5
  ELSE 0

\* any(phrase in query_lower for phrase in [...])
is_explanatory(query_lower) == \E phrase \in explanatory_phrases : Contains(phrase, query_lower)

\* a boost that favours procedures over educational content
explanatory_boost_for_procedures(query_lower, category) ==
  IF ~is_explanatory(query_lower) THEN 0
  ELSE IF category \in {"procedures"} THEN 15
  ELSE IF category \in {"concepts", "education", "threats"} THEN 0 - 5
  ELSE 0

\* priority boost for educational content, reduction for procedures
explanatory_boost(query_lower, category) ==
  IF ~is_explanatory(query_lower) THEN 0
  ELSE IF category \in {"concepts", "education", "threats"} THEN 15
  ELSE IF category \in {"procedures"} THEN 0 - 5
  ELSE 0

\* match_count of a document once the loop body has run for it
match_count(doc, query) ==
  keyword_matches(split(lower(query)), doc_text(doc))
    + phrase_bonus(lower(query), doc_text(doc))
    + category_bonus(lower(query), doc.metadata.category)
    + explanatory_boost(lower(query), doc.metadata.category)

\* the (position in mock_knowledge, match_count) pairs of the loop, in corpus
\* order, the position standing for the document
all_scored(query) ==
  SubSeq([i \in 1..Len(mock_knowledge) |-> <<i, match_count(mock_knowledge[i], query)>>],
         1, Len(mock_knowledge))

\* an insertion that puts the element in front of those that compare equal
insert_desc_before_equal(sorted, x) ==
  SelectSeq(sorted, LAMBDA y : y[2] > x[2]) \o <<x>> \o SelectSeq(sorted, LAMBDA y : y[2] <= x[2])

\* one element put into a list sorted by descending match_count, behind those
\* that compare equal
insert_desc(sorted, x) ==
  SelectSeq(sorted, LAMBDA y : y[2] >= x[2]) \o <<x>> \o SelectSeq(sorted, LAMBDA y : y[2] < x[2])

RECURSIVE sort_desc(_)
\* list.sort(key=lambda x: x[1], reverse=True): stable, equal keys keep their order
sort_desc(list) ==
  IF list = <<>> THEN <<>>
  ELSE insert_desc(sort_desc(SubSeq(list, 1, Len(list) - 1)), list[Len(list)])

\* list[:k] for k >= 0
Prefix(list, k) == SubSeq(list, 1, IF k < Len(list) THEN k ELSE Len(list))

\* the documents at the positions of a list of pairs
docs_of(pairs) == SubSeq([i \in 1..Len(pairs) |-> mock_knowledge[pairs[i][1]]], 1, Len(pairs))

\* relevant_docs if relevant_docs else mock_knowledge[:top_k]
relevant_or_default(relevant_docs, top_k) ==
  IF relevant_docs # <<>> THEN relevant_docs ELSE Prefix(mock_knowledge, top_k)

\* RAGTool._search_mock
_search_mock(query, top_k) ==
  relevant_or_default(
    docs_of(Prefix(sort_desc(SelectSeq(all_scored(query), LAMBDA x : x[2] > 0)), top_k)),
    top_k)

----------------------------------------------------------------------------
\* Remote search and context building (RAGTool.search, _search_azure,
\* get_context, sophia/rag_tools.py)

\* result.get(field, default) on one hit of the remote index
result_get(result, field, default) == IF field \in DOMAIN result THEN result[field] ELSE default

\* the document _search_azure builds from one hit
azure_document(result) ==
  [content |-> result_get(result, "content", <<>>),
   title |-> result_get(result, "title", <<>>),
   score |-> result_get(result, "@search.score", 0),
   metadata |-> [source |-> result_get(result, "source", "unknown"),
                 category |-> result_get(result, "category", "general")]]

\* the hit the remote index holds for a document
RemoteHit(doc) ==
  [content |-> doc.content, title |-> doc.title, source |-> doc.metadata.source,
   category |-> doc.metadata.category] @@ ("@search.score" :> doc.score)

\* what the remote search call does: it raises, or it yields a list of hits
RemoteOutcomes ==
  {[raised |-> TRUE, results |-> <<>>],
   [raised |-> FALSE, results |-> <<>>],
   [raised |-> FALSE, results |-> <<RemoteHit(doc_firewall)>>],
   [raised |-> FALSE, results |-> <<RemoteHit(doc_ids_ips), EmptyDict>>]}

\* _search_azure without its `except Exception`: the error reaches the caller
_search_azure_uncaught(query, top_k, remote) ==
  IF remote.raised
    THEN <<[raised |-> TRUE]>>
    ELSE SubSeq([i \in 1..Len(remote.results) |-> azure_document(remote.results[i])],
                1, Len(remote.results))

\* RAGTool._search_azure: the documents of the hits, or the local search when
\* the call or the iteration raises
_search_azure(query, top_k, remote) ==
  IF remote.raised
    THEN _search_mock(query, top_k)
    ELSE SubSeq([i \in 1..Len(remote.results) |-> azure_document(remote.results[i])],
                1, Len(remote.results))

\* search that finds nothing without a search client
search_remote_only(rag_tool, query, top_k, remote) ==
  IF rag_tool.search_client THEN _search_azure(query, top_k, remote) ELSE <<>>

\* RAGTool.search
search(rag_tool, query, top_k, remote) ==
  IF rag_tool.search_client
    THEN _search_azure(query, top_k, remote)
    ELSE _search_mock(query, top_k)

Digit(d) == <<"0","1","2","3","4","5","6","7","8","9">>[d + 1]

\* f"{score:.2f}" for a score given in hundredths, below 10
format_2f(hundredths) ==
  <<Digit(hundredths \div 100), ".", Digit((hundredths \div 10) % 10), Digit(hundredths % 10)>>

\* "**Informacio'n Relevante:**\n"
context_header ==
  <<"*","*","I","n","f","o","r","m","a","c","i","o_acute","n"," ","R","e","l","e","v","a","n","t",
    "e",":","*","*","\n">>

\* "No se encontro' informacio'n relevante en la base de conocimiento."
no_documents_text ==
  <<"N","o"," ","s","e"," ","e","n","c","o","n","t","r","o_acute"," ","i","n","f","o","r","m","a",
    "c","i","o_acute","n"," ","r","e","l","e","v","a","n","t","e"," ","e","n"," ","l","a"," ","b",
    "a","s","e"," ","d","e"," ","c","o","n","o","c","i","m","i","e","n","t","o",".">>

\* f"\n**{doc['title']}** (relevance: {doc['score']:.2f})\n{doc['content']}\n"
context_doc_text(doc) ==
  <<"\n","*","*">> \o doc.title
  \o <<"*","*"," ","(","r","e","l","e","v","a","n","c","e",":"," ">> \o format_2f(doc.score)
  \o <<")","\n">> \o doc.content \o <<"\n">>

\* "\n".join(parts)
RECURSIVE join_newline(_)
join_newline(parts) ==
  IF parts = <<>> THEN <<>>
  ELSE IF Len(parts) = 1 THEN parts[1]
  ELSE parts[1] \o <<"\n">> \o join_newline(Tail(parts))

\* the loop of get_context with `continue` in the place of `break`: a document
\* that does not fit is skipped and later ones are still tried
RECURSIVE context_parts_skipping(_, _, _, _)
context_parts_skipping(documents, i, total_chars, max_chars) ==
  IF i > Len(documents) THEN <<>>
  ELSE IF total_chars + Len(context_doc_text(documents[i])) > max_chars
    THEN context_parts_skipping(documents, i + 1, total_chars, max_chars)
  ELSE <<context_doc_text(documents[i])>>
       \o context_parts_skipping(documents, i + 1,
            total_chars + Len(context_doc_text(documents[i])), max_chars)

\* the loop of get_context from document i on: the excerpts appended, until
\* the first one that would pass max_chars
RECURSIVE context_parts(_, _, _, _)
context_parts(documents, i, total_chars, max_chars) ==
  IF i > Len(documents) THEN <<>>
  ELSE IF total_chars + Len(context_doc_text(documents[i])) > max_chars THEN <<>>
  ELSE <<context_doc_text(documents[i])>>
       \o context_parts(documents, i + 1,
            total_chars + Len(context_doc_text(documents[i])), max_chars)

\* RAGTool.get_context after its search returned documents
context_of(documents, max_tokens) ==
  IF documents = <<>>
    THEN no_documents_text
    ELSE join_newline(<<context_header>> \o context_parts(documents, 1, 0, max_tokens * 4))

\* RAGTool.get_context
RAGTool_get_context(rag_tool, query, max_tokens, remote) ==
  context_of(search(rag_tool, query, 5, remote), max_tokens)

----------------------------------------------------------------------------
\* Request handling, continued

\* RAGTool.get_context as far as the handler depends on it: the context text
\* built for the query by the tool's backend
get_context(rag_tool, query) ==
  [header |-> "Relevant knowledge:",
   query |-> query,
   backend |-> IF rag_tool.search_client THEN "azure" ELSE "mock"]

\* the mock security tools process_user_message consults for a query
tools_used(msg) ==
  LET ml == lower(msg)
  IN (IF Contains(kw_alert, ml) \/ Contains(kw_palo, ml) THEN <<"palo_alto">> ELSE <<>>)
     \o (IF Contains(kw_log, ml) \/ Contains(kw_splunk, ml) THEN <<"splunk">> ELSE <<>>)
     \o (IF Contains(kw_metric, ml) \/ Contains(kw_grafana, ml) THEN <<"grafana">> ELSE <<>>)
     \o (IF Contains(kw_wazuh, ml) THEN <<"wazuh">> ELSE <<>>)
     \o (IF Contains(kw_meraki, ml) \/ Contains(kw_network, ml) THEN <<"meraki">> ELSE <<>>)

\* detect_intent is a pure function of the message: its results for the
\* messages of the specifications, computed once
DetectIntentTable ==
  [m \in RouterMessages \cup ChatMessages \cup {msg_run_backup} |-> detect_intent(m)] @@ EmptyDict

\* intent_router.detect_intent(msg), looked up when already computed
intent_router_detect_intent(msg) ==
  IF msg \in DOMAIN DetectIntentTable THEN DetectIntentTable[msg] ELSE detect_intent(msg)

\* the keyword arguments process_user_message passes to create_ticket_stub
process_user_message_kwargs(ar, company_id, user_id, it) ==
  [action_request |-> ar, company_id |-> company_id, user_id |-> user_id,
   context |-> [intent_type |-> it]]

\* app.process_user_message when the ticket POST, if one is made, meets
\* network behaviour net and commit result db_ok: what it returns or that it
\* raised, the branch it took, the classifier's results and the backend table
\* afterwards
process_user_message_with(msg, company_id, user_id, rag_tools, net, db_ok, table, hashes) ==
  LET d == intent_router_detect_intent(msg)
      it == d[1]
      ar == d[2]
      esc == should_escalate_to_victoria(ar)
      base == [raised |-> FALSE, intent_type |-> it, action_request |-> ar, table |-> table,
               escalate |-> IF it = "action" THEN esc ELSE None]
  IN IF it = "action"
       THEN IF esc
         THEN LET t == call_create_ticket_stub(
                         process_user_message_kwargs(ar, company_id, user_id, it),
                         net, db_ok, table, hashes)
              IN IF t.raised
                   THEN [base EXCEPT !.raised = TRUE, !.table = t.table] @@
                        [branch |-> "escalate", result |-> EmptyDict]
                   ELSE [base EXCEPT !.table = t.table] @@
                        [branch |-> "escalate",
                         result |-> [response |-> t.escalation_message,
                                     intent |-> "action_escalated",
                                     ticket_id |-> t.victoria_response.ticket_id,
                                     tool_calls |-> <<"create_victoria_ticket">>]]
         ELSE base @@
              [branch |-> "execute",
               result |-> [response |-> [template |-> "Action executed successfully",
                                         action_type |-> ar.action_type,
                                         parameters |-> ar.parameters],
                           intent |-> "action_executed",
                           ticket_id |-> NoneVal,
                           tool_calls |-> <<ar.action_type>>]]
     ELSE IF it = "query"
       THEN IF company_id \in DOMAIN rag_tools
         THEN base @@
              [branch |-> "query_rag",
               result |-> [response |-> [template |-> "**Response to your query:**",
                                         context |-> get_context(rag_tools[company_id], msg),
                                         tools |-> tools_used(msg)],
                           intent |-> "query",
                           ticket_id |-> NoneVal,
                           tool_calls |-> <<"rag_search">> \o tools_used(msg)]]
         ELSE base @@
              [branch |-> "query_mock",
               result |-> [response |-> [template |-> "I can help answer your security questions. Please provide more details."],
                           intent |-> "query",
                           ticket_id |-> NoneVal,
                           tool_calls |-> <<>>]]
     ELSE base @@
          [branch |-> "unknown",
           result |-> [response |-> [template |-> "I'm not sure how to help with that. Can you rephrase your question or request?"],
                       intent |-> "unknown",
                       ticket_id |-> NoneVal,
                       tool_calls |-> <<>>]]

\* app.process_user_message: its possible outcomes, over everything the
\* network and the backend database can do to the ticket POST
process_user_message(msg, company_id, user_id, rag_tools, table, hashes) ==
  {process_user_message_with(msg, company_id, user_id, rag_tools, net, db_ok, table, hashes) :
     net \in NetOutcomes, db_ok \in BOOLEAN}

----------------------------------------------------------------------------
\* Inputs and bounds of the service specifications

\* ActionRequests handed to create_ticket_stub: those the classifier builds
\* for the chat messages
EscRequests == {intent_router_detect_intent(m)[2] : m \in {msg_block_ip, msg_run_backup}}

Subjects == {Subject(ar) : ar \in EscRequests}

\* values hash(subject) takes in one process (hash() of a str is salted per
\* process and may be negative)
HashSamples == {-1, 17}

\* create_ticket_stub calls in one behaviour
MaxCalls == 2

\* HTTP requests in one behaviour
MaxRequests == 2

\* whether azure.ai.projects and azure.search.documents can be imported
Envs == [projects_sdk : BOOLEAN, search_sdk : BOOLEAN]

\* what validate_agent_access and the get_agent_instance fallback yield
AuthOutcomes ==
  {[ok |-> FALSE, agent_instance |-> NoDict, fallback |-> NoDict]}
  \cup {[ok |-> TRUE, agent_instance |-> SomeDict(c), fallback |-> NoDict] : c \in AzureConfigs}
  \cup {[ok |-> TRUE, agent_instance |-> SomeDict(EmptyDict), fallback |-> f] :
          f \in {NoDict, SomeDict(NoCredentials)}}

\* calls made on a module-level object in one behaviour
MaxOps == 4

\* the latest reading of the system clock, in seconds after start-up
MaxTime == 1

\* (role, content) pairs handed to add_message
MemoryMessages == {<<"user", msg_show_alerts>>, <<"assistant", msg_run_backup>>}

\* ""
query_empty == <<>>

\* "que es un firewall" (with the accents and marks of the Spanish spelling)
query_que_es_un_firewall == <<"q","u","e_acute"," ","e","s"," ","u","n"," ","f","i","r","e","w","a","l","l">>

\* "que es un firewall"
query_que_es_plain == <<"q","u","e"," ","e","s"," ","u","n"," ","f","i","r","e","w","a","l","l">>

\* "Que es un Firewall?" (with the accents and marks of the Spanish spelling)
query_title_firewall == <<"inverted_question","Q","u","e_acute"," ","e","s"," ","u","n"," ","F","i","r","e","w","a","l","l","?">>

\* "what is ddos"
query_what_is_ddos == <<"w","h","a","t"," ","i","s"," ","d","d","o","s">>

\* "firewall"
query_firewall == <<"f","i","r","e","w","a","l","l">>

\* "bloquear ip"
query_bloquear_ip == <<"b","l","o","q","u","e","a","r"," ","i","p">>

\* "Procedimientos de Bloqueo de IP"
query_title_block_ip == <<"P","r","o","c","e","d","i","m","i","e","n","t","o","s"," ","d","e"," ","B","l","o","q","u","e","o"," ","d","e"," ","I","P">>

\* "explica procedimientos de bloqueo"
query_explica_procedimientos == <<"e","x","p","l","i","c","a"," ","p","r","o","c","e","d","i","m","i","e","n","t","o","s"," ","d","e"," ","b","l","o","q","u","e","o">>

\* "explica para bloquear una direccion necesitas configurar reglas firewall" (with the accents and marks of the Spanish spelling)
query_explica_bloquear == <<"e","x","p","l","i","c","a"," ","p","a","r","a"," ","b","l","o","q","u","e","a","r"," ","u","n","a"," ","d","i","r","e","c","c","i","o_acute","n"," ","n","e","c","e","s","i","t","a","s"," ","c","o","n","f","i","g","u","r","a","r"," ","r","e","g","l","a","s"," ","f","i","r","e","w","a","l","l">>

\* "alertas de seguridad"
query_alertas == <<"a","l","e","r","t","a","s"," ","d","e"," ","s","e","g","u","r","i","d","a","d">>

\* "metricas del sistema" (with the accents and marks of the Spanish spelling)
query_metricas == <<"m","e_acute","t","r","i","c","a","s"," ","d","e","l"," ","s","i","s","t","e","m","a">>

\* "xyz"
query_xyz == <<"x","y","z">>

\* "un es de"
query_short_words == <<"u","n"," ","e","s"," ","d","e">>

\* "como funciona un ids" (with the accents and marks of the Spanish spelling)
query_como_funciona == <<"c","o_acute","m","o"," ","f","u","n","c","i","o","n","a"," ","u","n"," ","i","d","s">>

\* "explain ransomware"
query_explain_ransomware == <<"e","x","p","l","a","i","n"," ","r","a","n","s","o","m","w","a","r","e">>

\* "seguridad"
query_seguridad == <<"s","e","g","u","r","i","d","a","d">>

\* "red seguridad"
query_red_seguridad == <<"r","e","d"," ","s","e","g","u","r","i","d","a","d">>

\* "que es" (with the accents and marks of the Spanish spelling)
query_que_es == <<"q","u","e_acute"," ","e","s">>

\* "alert"
query_alert == <<"a","l","e","r","t">>

\* queries put to the local search
SearchQueries ==
  {query_empty, query_que_es_un_firewall, query_que_es_plain, query_title_firewall,
   query_what_is_ddos, query_firewall, query_bloquear_ip, query_title_block_ip,
   query_explica_procedimientos, query_explica_bloquear, query_alertas, query_metricas,
   query_xyz, query_short_words, query_como_funciona, query_explain_ransomware,
   query_seguridad, query_red_seguridad, query_que_es, query_alert}

\* the largest top_k asked of the local search
MaxTopK == 6

\* threads of the server that call the memory manager at the same time
Callers == {"A", "B"}

\* a caller that is not inside a call
IdleFrame == [pc |-> "idle"]

NoRequest == [op |-> "none"]

NoResponse == [status |-> 0]

NoCall == [op |-> "none"]

----------------------------------------------------------------------------
\* Initial states

RouterStart ==
  /\ origin = "none"
  /\ intent_type = None
  /\ action_request = None
  /\ severity = None
  /\ escalate = None
  /\ pc = "start"
  /\ branch = None

ServiceStart ==
  /\ tickets = <<>>
  /\ calls = <<>>
  /\ _sessions = EmptyDict
  /\ _company_threads = EmptyDict
  /\ _agents = EmptyDict
  /\ _rag_tools = EmptyDict
  /\ request = NoRequest
  /\ response = NoResponse
  /\ handled = 0
  /\ _cache = EmptyDict
  /\ _timestamps = EmptyDict
  /\ last_call = NoCall
  /\ returned = None
  /\ made = 0
  /\ frames = [c \in Callers |-> IdleFrame]
  /\ appended = [c \in Callers |-> <<>>]

\* classifier and risk policy applied to one message
InitRouter ==
  /\ message \in RouterMessages
  /\ RouterStart
  /\ ServiceStart
  /\ str_hash = [s \in Subjects |-> 17]
  /\ env = [projects_sdk |-> TRUE, search_sdk |-> TRUE]
  /\ now = 0

\* the service after start-up, before any request
Init ==
  /\ message = <<>>
  /\ RouterStart
  /\ ServiceStart
  /\ str_hash = [s \in Subjects |-> 17]
  /\ env \in Envs
  /\ now = 0

\* the handoff module in a process with any hash salt
InitEscalation ==
  /\ message = <<>>
  /\ RouterStart
  /\ ServiceStart
  /\ str_hash \in [Subjects -> HashSamples]
  /\ env = [projects_sdk |-> TRUE, search_sdk |-> TRUE]
  /\ now = 0

\* the memory manager of a started service, used directly
InitMemory ==
  /\ message = <<>>
  /\ RouterStart
  /\ ServiceStart
  /\ str_hash = [s \in Subjects |-> 17]
  /\ env = [projects_sdk |-> TRUE, search_sdk |-> TRUE]
  /\ now \in 0..MaxTime

\* a query put to a RAG tool that has no search client
InitSearch ==
  /\ message \in SearchQueries
  /\ RouterStart
  /\ ServiceStart
  /\ str_hash = [s \in Subjects |-> 17]
  /\ env = [projects_sdk |-> TRUE, search_sdk |-> TRUE]
  /\ now = 0

----------------------------------------------------------------------------
\* Classifier and risk policy, step by step

\* intent_router.detect_intent(message)
DetectIntent ==
  /\ pc = "start"
  /\ LET d == intent_router_detect_intent(message)
     IN /\ intent_type' = d[1]
        /\ action_request' = d[2]
  /\ origin' = "detected"
  /\ pc' = "classified"
  /\ UNCHANGED <<message, severity, escalate, branch, escalationVars, memoryVars,
                 loaderVars, httpVars, env>>
  /\ UNCHANGED <<now, cacheVars, callVars>>

\* ActionRequest(intent=..., action_type=..., requires_escalation=...) built
\* directly, with the dataclass defaults for the other fields
ConstructRequest(intent, action_type, requires_escalation) ==
  /\ pc = "start"
  /\ message = <<>>
  /\ action_request' = ActionRequest(intent, action_type, EmptyDict, <<>>, requires_escalation)
  /\ intent_type' = intent
  /\ origin' = "constructed"
  /\ pc' = "classified"
  /\ UNCHANGED <<message, severity, escalate, branch, escalationVars, memoryVars,
                 loaderVars, httpVars, env>>
  /\ UNCHANGED <<now, cacheVars, callVars>>

\* handoff._determine_severity(action_request)
DetermineSeverity ==
  /\ pc = "classified"
  /\ severity' = _determine_severity(action_request)
  /\ pc' = "rated"
  /\ UNCHANGED <<message, origin, intent_type, action_request, escalate, branch,
                 escalationVars, memoryVars, loaderVars, httpVars, env>>
  /\ UNCHANGED <<now, cacheVars, callVars>>

\* intent_router.should_escalate_to_victoria(action_request)
ShouldEscalate ==
  /\ pc = "rated"
  /\ escalate' = should_escalate_to_victoria(action_request)
  /\ pc' = "decided"
  /\ UNCHANGED <<message, origin, intent_type, action_request, severity, branch,
                 escalationVars, memoryVars, loaderVars, httpVars, env>>
  /\ UNCHANGED <<now, cacheVars, callVars>>

\* process_user_message(message, company_id, user_id) called on its own
ProcessUserMessage(company_id, user_id) ==
  /\ pc = "start"
  /\ \E p \in process_user_message(message, company_id, user_id, _rag_tools, tickets, str_hash) :
        /\ intent_type' = p.intent_type
        /\ action_request' = p.action_request
        /\ escalate' = p.escalate
        /\ branch' = p.branch
        /\ tickets' = p.table
        /\ response' = IF p.raised THEN [status |-> 500, raised |-> TRUE]
                       ELSE [status |-> 200, raised |-> FALSE, result |-> p.result]
  /\ origin' = "detected"
  /\ pc' = "processed"
  /\ UNCHANGED <<message, severity, str_hash, calls, memoryVars, loaderVars, request,
                 handled, env>>
  /\ UNCHANGED <<now, cacheVars, callVars>>

NextRouter ==
  \/ DetectIntent
  \/ \E i \in Intents, t \in ActionTypes, e \in BOOLEAN : ConstructRequest(i, t, e)
  \/ DetermineSeverity
  \/ ShouldEscalate
  \/ \E c \in Companies, u \in Users : ProcessUserMessage(c, u)

----------------------------------------------------------------------------
\* _determine_action_type called directly

\* the words the rules of _determine_action_type look for
ActionTypeWords ==
  <<kw_block, kw_ip, kw_quarantine, kw_isolate, kw_shutdown, kw_shut_down, kw_delete, kw_user,
    kw_disable, kw_firewall, kw_emergency, kw_configure, kw_change>>

\* the words of ActionTypeWords at the positions of chosen, from position i
\* on, each followed by a space
RECURSIVE MessageOfWords(_, _)
MessageOfWords(chosen, i) ==
  IF i > Len(ActionTypeWords) THEN <<>>
  ELSE (IF i \in chosen THEN ActionTypeWords[i] \o <<" ">> ELSE <<>>)
       \o MessageOfWords(chosen, i + 1)

\* largest number of rule words in a message
MaxRuleWords == 4

\* one message for every choice of at most MaxRuleWords rule words
ActionTypeMessages ==
  {MessageOfWords(chosen, 1) :
     chosen \in {S \in SUBSET (1..Len(ActionTypeWords)) : Cardinality(S) <= MaxRuleWords}}

InitActionType ==
  /\ message \in ActionTypeMessages
  /\ RouterStart
  /\ ServiceStart
  /\ str_hash = [s \in Subjects |-> 17]
  /\ env = [projects_sdk |-> TRUE, search_sdk |-> TRUE]
  /\ now = 0

\* intent_router._determine_action_type(message)
DetermineActionTypeCall ==
  /\ made = 0
  /\ made' = 1
  /\ last_call' = [op |-> "_determine_action_type", message |-> message]
  /\ returned' = _determine_action_type(message)
  /\ UNCHANGED <<routerVars, escalationVars, memoryVars, loaderVars, httpVars, branch, env,
                 now, cacheVars, threadVars>>

\* intent_router.detect_intent(message), computed for this message
DetectIntentComputed ==
  /\ pc = "start"
  /\ intent_type' = detect_intent(message)[1]
  /\ action_request' = detect_intent(message)[2]
  /\ origin' = "detected"
  /\ pc' = "classified"
  /\ UNCHANGED <<message, severity, escalate, branch, escalationVars, memoryVars,
                 loaderVars, httpVars, env>>
  /\ UNCHANGED <<now, cacheVars, callVars>>

NextActionType ==
  \/ DetermineActionTypeCall
  \/ DetectIntentComputed
  \/ DetermineSeverity
  \/ ShouldEscalate

----------------------------------------------------------------------------
\* AgentLoader called directly, and the query branch of process_user_message

\* the search endpoint of each company's own index
SearchEndpointOf == (1 :> "https://search-1") @@ (2 :> "https://search-2")

\* a tenant with search credentials and no LLM credentials
SearchOnly(company_id) ==
  [NoCredentials EXCEPT !.azure_search_endpoint = SearchEndpointOf[company_id],
                        !.azure_search_key = "skey"]

\* a tenant with LLM credentials and no search credentials
LLMOnly == [FullCredentials EXCEPT !.azure_search_endpoint = "", !.azure_search_key = ""]

\* a tenant with every credential
Full(company_id) ==
  [FullCredentials EXCEPT !.azure_search_endpoint = SearchEndpointOf[company_id]]

\* a tenant with every credential but the project id
NoProject(company_id) == [Full(company_id) EXCEPT !.azure_project_id = ""]

\* the configurations the backend holds for a company
TenantConfigs(company_id) ==
  {NoCredentials, SearchOnly(company_id), LLMOnly, Full(company_id), NoProject(company_id)}

\* "I can help answer your security questions. Please provide more details."
no_tool_response == <<"I can help answer your security questions. Please provide more details.">>

InitLoader ==
  /\ message = msg_show_alerts
  /\ RouterStart
  /\ ServiceStart
  /\ str_hash = [s \in Subjects |-> 17]
  /\ env \in Envs
  /\ now = 0

\* agent_loader.initialize_agent(company_id, azure_config)
InitializeAgentCall(company_id, azure_config) ==
  /\ made < MaxOps
  /\ made' = made + 1
  /\ last_call' = [op |-> "initialize_agent", company_id |-> company_id,
                   azure_config |-> azure_config, had_agent |-> company_id \in DOMAIN _agents]
  /\ returned' = initialize_agent(_agents, _rag_tools, company_id, azure_config,
                                  env.projects_sdk, env.search_sdk).agent_id
  /\ _agents' = initialize_agent(_agents, _rag_tools, company_id, azure_config,
                                 env.projects_sdk, env.search_sdk).agents
  /\ _rag_tools' = initialize_agent(_agents, _rag_tools, company_id, azure_config,
                                    env.projects_sdk, env.search_sdk).rag_tools
  /\ UNCHANGED <<routerVars, escalationVars, memoryVars, httpVars, branch, env, now, cacheVars,
                 threadVars>>

\* agent_loader.clear_agent(company_id)
ClearAgentCall(company_id) ==
  /\ made < MaxOps
  /\ made' = made + 1
  /\ last_call' = [op |-> "clear_agent", company_id |-> company_id]
  /\ returned' = None
  /\ _agents' = clear_agent(_agents, _rag_tools, company_id).agents
  /\ _rag_tools' = clear_agent(_agents, _rag_tools, company_id).rag_tools
  /\ UNCHANGED <<routerVars, escalationVars, memoryVars, httpVars, branch, env, now, cacheVars,
                 threadVars>>

\* agent_loader.refresh_agent(company_id, azure_config)
RefreshAgentCall(company_id, azure_config) ==
  /\ made < MaxOps
  /\ made' = made + 1
  /\ last_call' = [op |-> "refresh_agent", company_id |-> company_id,
                   azure_config |-> azure_config]
  /\ returned' = refresh_agent(_agents, _rag_tools, company_id, azure_config,
                               env.projects_sdk, env.search_sdk).agent_id
  /\ _agents' = refresh_agent(_agents, _rag_tools, company_id, azure_config,
                              env.projects_sdk, env.search_sdk).agents
  /\ _rag_tools' = refresh_agent(_agents, _rag_tools, company_id, azure_config,
                                 env.projects_sdk, env.search_sdk).rag_tools
  /\ UNCHANGED <<routerVars, escalationVars, memoryVars, httpVars, branch, env, now, cacheVars,
                 threadVars>>

\* rag_tool.get_context(msg_show_alerts, max_tokens=1500) for each kind of
\* tool and each answer of the remote index, computed once
QueryContexts ==
  [search_client \in BOOLEAN, remote \in RemoteOutcomes |->
     RAGTool_get_context([search_client |-> search_client], msg_show_alerts, 1500, remote)]

\* rag_tool.get_context(query, max_tokens=1500), looked up when already computed
query_context(rag_tool, query, remote) ==
  IF query = msg_show_alerts
    THEN QueryContexts[rag_tool.search_client, remote]
    ELSE RAGTool_get_context(rag_tool, query, 1500, remote)

\* the query branch of process_user_message(message, company_id, user_id):
\* the context of the company's RAG tool, the remote index answering with
\* remote, or the fixed sentence when the company has no tool
QueryContextCall(company_id, remote) ==
  /\ made < MaxOps
  /\ made' = made + 1
  /\ last_call' = [op |-> "query", company_id |-> company_id, remote |-> remote,
                   has_tool |-> company_id \in DOMAIN _rag_tools]
  /\ returned' = IF company_id \in DOMAIN _rag_tools
                   THEN query_context(_rag_tools[company_id], message, remote)
                   ELSE no_tool_response
  /\ UNCHANGED <<routerVars, escalationVars, memoryVars, loaderVars, httpVars, branch, env,
                 now, cacheVars, threadVars>>

NextLoader ==
  \/ \E c \in Companies : \E azure_config \in TenantConfigs(c) : InitializeAgentCall(c, azure_config)
  \/ \E c \in Companies : ClearAgentCall(c)
  \/ \E c \in Companies : \E azure_config \in TenantConfigs(c) : RefreshAgentCall(c, azure_config)
  \/ \E c \in Companies, remote \in RemoteOutcomes : QueryContextCall(c, remote)

----------------------------------------------------------------------------
\* Escalation called directly

\* create_ticket_stub(action_request, company_id, user_id, auth_token)
CreateTicketStub(ar, company_id, user_id, auth_token, net, db_ok) ==
  /\ Len(calls) < MaxCalls
  /\ LET t == call_create_ticket_stub(
                [action_request |-> ar, company_id |-> company_id, user_id |-> user_id,
                 auth_token |-> auth_token],
                net, db_ok, tickets, str_hash)
         sent == [subject |-> Subject(ar), description |-> Description(ar),
                  userId |-> user_id]
     IN /\ tickets' = t.table
        /\ calls' = Append(calls,
             [action_request |-> ar, company_id |-> company_id, user_id |-> user_id,
              auth_token |-> auth_token, net |-> net,
              status |-> IF net \in {"ok", "timeout_processed"}
                           THEN agent_create_ticket(auth_token, sent, db_ok, tickets).status
                           ELSE 0,
              raised |-> t.raised,
              result |-> IF t.raised THEN EmptyDict
                         ELSE [ticket_id |-> t.ticket_id,
                               victoria_response |-> t.victoria_response,
                               escalation_message |-> t.escalation_message],
              rows_before |-> Len(tickets),
              rows_after |-> Len(t.table)])
  /\ UNCHANGED <<routerVars, branch, str_hash, memoryVars, loaderVars, httpVars, env>>
  /\ UNCHANGED <<now, cacheVars, callVars>>

NextEscalation ==
  \E ar \in EscRequests, c \in Companies, u \in Users, net \in NetOutcomes, db_ok \in BOOLEAN :
    \E tok \in AuthTokens(c) :
      CreateTicketStub(ar, c, u, tok, net, db_ok)

----------------------------------------------------------------------------
\* HTTP endpoints of the SOPHIA service

\* a request without threadId
NoThread == <<>>

\* POST /chat.  auth is what the credential backend answers, hex the token
\* secrets.token_hex draws when a thread is created.  The audit POST at the
\* end is fire-and-forget and keeps no state here.
Chat(company_id, user_id, msg, thread_id, auth, hex) ==
  /\ handled < MaxRequests
  /\ handled' = handled + 1
  /\ request' = [op |-> "chat", company_id |-> company_id, user_id |-> user_id,
                 thread_id |-> thread_id, auth |-> auth, at |-> now]
  /\ message' = msg
  /\ UNCHANGED <<severity, pc, str_hash, calls, env>>
  /\ UNCHANGED <<now, cacheVars, callVars>>
  /\ IF msg = <<>>
       THEN /\ response' = [status |-> 400]
            /\ UNCHANGED <<origin, intent_type, action_request, escalate, branch, tickets,
                           memoryVars, loaderVars>>
     ELSE IF ~auth.ok
       THEN /\ response' = [status |-> 401]
            /\ UNCHANGED <<origin, intent_type, action_request, escalate, branch, tickets,
                           memoryVars, loaderVars>>
     ELSE IF ~dict_truthy(auth.agent_instance) /\ ~dict_truthy(auth.fallback)
       THEN /\ response' = [status |-> 502]
            /\ UNCHANGED <<origin, intent_type, action_request, escalate, branch, tickets,
                           memoryVars, loaderVars>>
     ELSE
       LET agent_instance == IF dict_truthy(auth.agent_instance)
                               THEN auth.agent_instance.dict ELSE auth.fallback.dict
           a == initialize_agent(_agents, _rag_tools, company_id, agent_instance,
                                 env.projects_sdk, env.search_sdk)
           th == IF thread_id = NoThread
                   THEN create_thread(_sessions, _company_threads, company_id, user_id, hex, now)
                   ELSE [thread_id |-> thread_id, sessions |-> _sessions,
                         company_threads |-> _company_threads]
           s1 == add_message(th.sessions, th.thread_id, "user", msg, now)
       IN \E p \in process_user_message(msg, company_id, user_id, a.rag_tools, tickets,
                                        str_hash) :
          /\ _agents' = a.agents
          /\ _rag_tools' = a.rag_tools
          /\ _company_threads' = th.company_threads
          /\ origin' = "detected"
          /\ intent_type' = p.intent_type
          /\ action_request' = p.action_request
          /\ escalate' = p.escalate
          /\ branch' = p.branch
          /\ tickets' = p.table
          /\ IF p.raised
               THEN /\ _sessions' = s1
                    /\ response' = [status |-> 500]
               ELSE /\ _sessions' = add_message(s1, th.thread_id, "assistant",
                                                p.result.response, now)
                    /\ response' =
                         [status |-> 200,
                          response |-> p.result.response,
                          threadId |-> th.thread_id,
                          agentId |-> a.agent_id,
                          intent |-> p.result.intent,
                          toolCalls |-> p.result.tool_calls,
                          ticketId |-> p.result.ticket_id,
                          mode |-> IF is_mock_mode(a.agents, company_id)
                                     THEN "mock" ELSE "azure"]

\* GET /threads/<thread_id>, sent by a caller that belongs to company caller;
\* the handler takes no credentials
GetThread(caller, thread_id) ==
  /\ handled < MaxRequests
  /\ handled' = handled + 1
  /\ request' = [op |-> "get_thread", company_id |-> caller, thread_id |-> thread_id]
  /\ response' = IF thread_id \in DOMAIN _sessions
                   THEN [status |-> 200,
                         threadId |-> thread_id,
                         companyId |-> _sessions[thread_id].company_id,
                         userId |-> _sessions[thread_id].user_id,
                         messages |-> _sessions[thread_id].messages,
                         createdAt |-> isoformat(_sessions[thread_id].created_at),
                         lastUpdated |-> isoformat(_sessions[thread_id].last_updated)]
                   ELSE [status |-> 404]
  /\ UNCHANGED <<routerVars, branch, escalationVars, memoryVars, loaderVars, env>>
  /\ UNCHANGED <<now, cacheVars, callVars>>

\* DELETE /threads/<thread_id>, sent by a caller that belongs to company caller
ClearThread(caller, thread_id) ==
  /\ handled < MaxRequests
  /\ handled' = handled + 1
  /\ request' = [op |-> "clear_thread", company_id |-> caller, thread_id |-> thread_id]
  /\ LET r == clear_thread(_sessions, _company_threads, thread_id)
     IN /\ _sessions' = r.sessions
        /\ _company_threads' = r.company_threads
  /\ response' = [status |-> 200, threadId |-> thread_id]
  /\ UNCHANGED <<routerVars, branch, escalationVars, loaderVars, env>>
  /\ UNCHANGED <<now, cacheVars, callVars>>

Next ==
  \/ \E c \in Companies, u \in Users, m \in ChatMessages, t \in ThreadIds \cup {NoThread},
        auth \in AuthOutcomes :
       \E hex \in IF t = NoThread THEN TokenHex ELSE {""} : Chat(c, u, m, t, auth, hex)
  \/ \E c \in Companies, t \in ThreadIds : GetThread(c, t)
  \/ \E c \in Companies, t \in ThreadIds : ClearThread(c, t)

----------------------------------------------------------------------------
\* The system clock

\* a second passes
Tick ==
  /\ now < MaxTime
  /\ now' = now + 1
  /\ UNCHANGED <<routerVars, escalationVars, memoryVars, loaderVars, httpVars, branch, env,
                 cacheVars, callVars>>

\* the system clock is set back a second (an NTP step, an operator): utcnow()
\* reads the wall clock, which is not monotonic
ClockSetBack ==
  /\ now > 0
  /\ now' = now - 1
  /\ UNCHANGED <<routerVars, escalationVars, memoryVars, loaderVars, httpVars, branch, env,
                 cacheVars, callVars>>

----------------------------------------------------------------------------
\* MemoryManager called directly

\* thread tokens secrets.token_hex can draw for a company: with 64 random bits
\* a token never repeats one that is in use
FreshHex(company_id) == {h \in TokenHex : ThreadId(company_id, h) \notin DOMAIN _sessions}

\* memory_manager.create_thread(company_id, user_id)
CreateThreadCall(company_id, user_id, hex) ==
  /\ made < MaxOps
  /\ made' = made + 1
  /\ last_call' = [op |-> "create_thread", company_id |-> company_id, user_id |-> user_id]
  /\ LET r == create_thread(_sessions, _company_threads, company_id, user_id, hex, now)
     IN /\ _sessions' = r.sessions
        /\ _company_threads' = r.company_threads
        /\ returned' = r.thread_id
  /\ UNCHANGED <<routerVars, escalationVars, loaderVars, httpVars, branch, env, now, cacheVars>>
  /\ UNCHANGED threadVars

\* memory_manager.add_message(thread_id, role, content)
AddMessageCall(thread_id, role, content) ==
  /\ made < MaxOps
  /\ made' = made + 1
  /\ last_call' = [op |-> "add_message", thread_id |-> thread_id, role |-> role,
                   content |-> content, found |-> thread_id \in DOMAIN _sessions]
  /\ _sessions' = add_message(_sessions, thread_id, role, content, now)
  /\ returned' = None
  /\ UNCHANGED <<routerVars, escalationVars, _company_threads, loaderVars, httpVars, branch,
                 env, now, cacheVars>>
  /\ UNCHANGED threadVars

\* memory_manager.get_context(thread_id)
GetContextCall(thread_id) ==
  /\ made < MaxOps
  /\ made' = made + 1
  /\ last_call' = [op |-> "get_context", thread_id |-> thread_id]
  /\ returned' = MemoryManager_get_context(_sessions, thread_id)
  /\ UNCHANGED <<routerVars, escalationVars, memoryVars, loaderVars, httpVars, branch, env,
                 now, cacheVars>>
  /\ UNCHANGED threadVars

\* memory_manager.get_company_threads(company_id)
GetCompanyThreadsCall(company_id) ==
  /\ made < MaxOps
  /\ made' = made + 1
  /\ last_call' = [op |-> "get_company_threads", company_id |-> company_id]
  /\ returned' = get_company_threads(_company_threads, company_id)
  /\ UNCHANGED <<routerVars, escalationVars, memoryVars, loaderVars, httpVars, branch, env,
                 now, cacheVars>>
  /\ UNCHANGED threadVars

\* memory_manager.clear_thread(thread_id)
ClearThreadCall(thread_id) ==
  /\ made < MaxOps
  /\ made' = made + 1
  /\ last_call' = [op |-> "clear_thread", thread_id |-> thread_id,
                   found |-> thread_id \in DOMAIN _sessions]
  /\ LET r == clear_thread(_sessions, _company_threads, thread_id)
     IN /\ _sessions' = r.sessions
        /\ _company_threads' = r.company_threads
  /\ returned' = None
  /\ UNCHANGED <<routerVars, escalationVars, loaderVars, httpVars, branch, env, now, cacheVars>>
  /\ UNCHANGED threadVars

\* memory_manager.clear_company_threads(company_id)
ClearCompanyThreadsCall(company_id) ==
  /\ made < MaxOps
  /\ made' = made + 1
  /\ last_call' = [op |-> "clear_company_threads", company_id |-> company_id]
  /\ LET r == clear_company_threads(_sessions, _company_threads, company_id)
     IN /\ _sessions' = r.sessions
        /\ _company_threads' = r.company_threads
  /\ returned' = None
  /\ UNCHANGED <<routerVars, escalationVars, loaderVars, httpVars, branch, env, now, cacheVars>>
  /\ UNCHANGED threadVars

NextMemory ==
  \/ \E c \in Companies, u \in Users : \E hex \in FreshHex(c) : CreateThreadCall(c, u, hex)
  \/ \E t \in ThreadIds, m \in MemoryMessages : AddMessageCall(t, m[1], m[2])
  \/ \E t \in ThreadIds : GetContextCall(t)
  \/ \E c \in Companies : GetCompanyThreadsCall(c)
  \/ \E t \in ThreadIds : ClearThreadCall(t)
  \/ \E c \in Companies : ClearCompanyThreadsCall(c)
  \/ Tick
  \/ ClockSetBack

\* the users that open threads when the token is any value token_hex can
\* return
Owners == {7, 8}

\* the calls that change the maps, secrets.token_hex returning any of its
\* values, one in use included
NextTokens ==
  \/ \E c \in Companies, u \in Owners, hex \in TokenHex : CreateThreadCall(c, u, hex)
  \/ \E t \in ThreadIds, m \in MemoryMessages : AddMessageCall(t, m[1], m[2])
  \/ \E t \in ThreadIds : ClearThreadCall(t)
  \/ \E c \in Companies : ClearCompanyThreadsCall(c)

----------------------------------------------------------------------------
\* MemoryManager called by two threads of the server at once.  The interpreter
\* runs one bytecode at a time: a dict lookup, a dict store, a del, a
\* list.append are each one step, and another thread can run between any two.

\* the company whose threads the concurrent callers work on
ConcurrentCompanies == {1}

ConcurrentThreadIds == {ThreadId(c, h) : c \in ConcurrentCompanies, h \in TokenHex}

\* (role, content) pairs a caller appends: the two callers' messages differ
CallerMessages(c) ==
  IF c = "A" THEN {<<"user", msg_show_alerts>>, <<"user", msg_block_ip>>}
             ELSE {<<"assistant", msg_run_backup>>}

\* thread tokens secrets.token_hex can draw: never one of a thread that is
\* stored, listed or held by a caller
FreshToken(company_id) ==
  {h \in TokenHex :
     /\ ThreadId(company_id, h) \notin DOMAIN _sessions
     /\ ThreadId(company_id, h) \notin Elements(get_company_threads(_company_threads, company_id))
     /\ \A c \in Callers : frames[c].pc = "idle" \/ frames[c].thread_id # ThreadId(company_id, h)}

\* caller c moves on inside its call
Goto(c, frame) ==
  /\ frames' = [frames EXCEPT ![c] = frame]
  /\ UNCHANGED <<last_call, returned>>

\* caller c's call returns
Return(c, finished, value) ==
  /\ frames' = [frames EXCEPT ![c] = IdleFrame]
  /\ last_call' = finished
  /\ returned' = value

\* caller c starts a call
Enter(c) ==
  /\ frames[c].pc = "idle"
  /\ made < MaxOps
  /\ made' = made + 1

\* the appended messages without those of thread_id
Forget(log, thread_id) == [c \in Callers |-> SelectSeq(log[c], LAMBDA m : m.thread_id # thread_id)]

\* create_thread: the token, the context, self._sessions[thread_id] = context
CallerCreateThread(c, company_id, user_id, hex) ==
  /\ Enter(c)
  /\ _sessions' = DictSet(_sessions, ThreadId(company_id, hex),
                          [thread_id |-> ThreadId(company_id, hex), company_id |-> company_id,
                           user_id |-> user_id, messages |-> <<>>, created_at |-> now,
                           last_updated |-> now])
  /\ Goto(c, [pc |-> "create_listed", op |-> "create_thread", thread_id |-> ThreadId(company_id, hex),
              company_id |-> company_id, user_id |-> user_id])
  /\ UNCHANGED <<routerVars, escalationVars, _company_threads, loaderVars, httpVars, branch,
                 env, now, cacheVars, appended>>

\* create_thread: if company_id not in self._company_threads
CallerCreateListed(c) ==
  /\ frames[c].pc = "create_listed"
  /\ Goto(c, [frames[c] EXCEPT !.pc = IF frames[c].company_id \in DOMAIN _company_threads
                                        THEN "create_append" ELSE "create_new_list"])
  /\ UNCHANGED <<routerVars, escalationVars, memoryVars, loaderVars, httpVars, branch, env,
                 now, cacheVars, made, appended>>

\* create_thread: self._company_threads[company_id] = []
CallerCreateNewList(c) ==
  /\ frames[c].pc = "create_new_list"
  /\ _company_threads' = DictSet(_company_threads, frames[c].company_id, <<>>)
  /\ Goto(c, [frames[c] EXCEPT !.pc = "create_append"])
  /\ UNCHANGED <<routerVars, escalationVars, _sessions, loaderVars, httpVars, branch, env,
                 now, cacheVars, made, appended>>

\* create_thread: self._company_threads[company_id].append(thread_id); return
CallerCreateAppend(c) ==
  /\ frames[c].pc = "create_append"
  /\ _company_threads' = [_company_threads EXCEPT ![frames[c].company_id] = Append(@, frames[c].thread_id)]
  /\ Return(c, [op |-> "create_thread", caller |-> c, company_id |-> frames[c].company_id,
                user_id |-> frames[c].user_id], frames[c].thread_id)
  /\ UNCHANGED <<routerVars, escalationVars, _sessions, loaderVars, httpVars, branch, env,
                 now, cacheVars, made, appended>>

\* add_message: context = self.get_context(thread_id); if context / else warning
CallerAddMessage(c, thread_id, role, content) ==
  /\ Enter(c)
  /\ IF thread_id \in DOMAIN _sessions
       THEN Goto(c, [pc |-> "add_append", op |-> "add_message", thread_id |-> thread_id,
                     role |-> role, content |-> content,
                     context |-> MemoryManager_get_context(_sessions, thread_id)])
       ELSE Return(c, [op |-> "add_message", caller |-> c, thread_id |-> thread_id,
                       role |-> role, content |-> content, found |-> FALSE], None)
  /\ UNCHANGED <<routerVars, escalationVars, memoryVars, loaderVars, httpVars, branch, env,
                 now, cacheVars, appended>>

\* an append that writes back the list as the caller found it at the lookup
messages_append_copy(sessions, frame, utcnow) ==
  [sessions EXCEPT ![frame.thread_id].messages =
     Append(frame.context.context.messages,
            [role |-> frame.role, content |-> frame.content, timestamp |-> isoformat(utcnow)])]

\* list.append on the messages of the thread frame.context refers to: the
\* list object is the one the stored thread holds
messages_append(sessions, frame, utcnow) ==
  [sessions EXCEPT ![frame.thread_id].messages =
     Append(@, [role |-> frame.role, content |-> frame.content, timestamp |-> isoformat(utcnow)])]

\* ConversationContext.add_message: self.messages.append({...}).  A thread
\* cleared since the lookup is no longer stored and the append is to an
\* object nothing refers to
CallerAppend(c) ==
  /\ frames[c].pc = "add_append"
  /\ IF frames[c].thread_id \in DOMAIN _sessions
       THEN /\ _sessions' = messages_append(_sessions, frames[c], now)
            /\ appended' = [appended EXCEPT ![c] =
                              Append(@, [thread_id |-> frames[c].thread_id, role |-> frames[c].role,
                                         content |-> frames[c].content])]
       ELSE UNCHANGED <<_sessions, appended>>
  /\ Goto(c, [frames[c] EXCEPT !.pc = "add_updated"])
  /\ UNCHANGED <<routerVars, escalationVars, _company_threads, loaderVars, httpVars, branch,
                 env, now, cacheVars, made>>

\* ConversationContext.add_message: self.last_updated = datetime.utcnow(); return
CallerLastUpdated(c) ==
  /\ frames[c].pc = "add_updated"
  /\ _sessions' = IF frames[c].thread_id \in DOMAIN _sessions
                    THEN [_sessions EXCEPT ![frames[c].thread_id].last_updated = now]
                    ELSE _sessions
  /\ Return(c, [op |-> "add_message", caller |-> c, thread_id |-> frames[c].thread_id,
                role |-> frames[c].role, content |-> frames[c].content, found |-> TRUE], None)
  /\ UNCHANGED <<routerVars, escalationVars, _company_threads, loaderVars, httpVars, branch,
                 env, now, cacheVars, made, appended>>

\* get_context: self._sessions.get(thread_id)
CallerGetContext(c, thread_id) ==
  /\ Enter(c)
  /\ Return(c, [op |-> "get_context", caller |-> c, thread_id |-> thread_id],
            MemoryManager_get_context(_sessions, thread_id))
  /\ UNCHANGED <<routerVars, escalationVars, memoryVars, loaderVars, httpVars, branch, env,
                 now, cacheVars, appended>>

\* get_company_threads: self._company_threads.get(company_id, [])
CallerGetCompanyThreads(c, company_id) ==
  /\ Enter(c)
  /\ Return(c, [op |-> "get_company_threads", caller |-> c, company_id |-> company_id],
            get_company_threads(_company_threads, company_id))
  /\ UNCHANGED <<routerVars, escalationVars, memoryVars, loaderVars, httpVars, branch, env,
                 now, cacheVars, appended>>

\* clear_thread: if thread_id in self._sessions
CallerClearThread(c, thread_id) ==
  /\ Enter(c)
  /\ IF thread_id \in DOMAIN _sessions
       THEN Goto(c, [pc |-> "clear_context", op |-> "clear_thread", thread_id |-> thread_id])
       ELSE Return(c, [op |-> "clear_thread", caller |-> c, thread_id |-> thread_id,
                       found |-> FALSE, raised |-> "none"], None)
  /\ UNCHANGED <<routerVars, escalationVars, memoryVars, loaderVars, httpVars, branch, env,
                 now, cacheVars, appended>>

\* the call of clear_thread ends in a KeyError: another caller deleted the thread
RaiseKeyError(c) ==
  Return(c, [op |-> "clear_thread", caller |-> c, thread_id |-> frames[c].thread_id,
             found |-> TRUE, raised |-> "KeyError"], None)

\* clear_thread: context = self._sessions[thread_id]; company_id = context.company_id
CallerClearContext(c) ==
  /\ frames[c].pc = "clear_context"
  /\ IF frames[c].thread_id \in DOMAIN _sessions
       THEN Goto(c, [pc |-> "clear_del", op |-> "clear_thread", thread_id |-> frames[c].thread_id,
                     company_id |-> _sessions[frames[c].thread_id].company_id])
       ELSE RaiseKeyError(c)
  /\ UNCHANGED <<routerVars, escalationVars, memoryVars, loaderVars, httpVars, branch, env,
                 now, cacheVars, made, appended>>

\* clear_thread: del self._sessions[thread_id]
CallerClearDel(c) ==
  /\ frames[c].pc = "clear_del"
  /\ IF frames[c].thread_id \in DOMAIN _sessions
       THEN /\ _sessions' = DictDel(_sessions, frames[c].thread_id)
            /\ appended' = Forget(appended, frames[c].thread_id)
            /\ Goto(c, [frames[c] EXCEPT !.pc = "clear_listed"])
       ELSE /\ RaiseKeyError(c)
            /\ UNCHANGED <<_sessions, appended>>
  /\ UNCHANGED <<routerVars, escalationVars, _company_threads, loaderVars, httpVars, branch,
                 env, now, cacheVars, made>>

\* clear_thread: if company_id in self._company_threads, the list
\* comprehension over self._company_threads[company_id]
CallerClearListed(c) ==
  /\ frames[c].pc = "clear_listed"
  /\ IF frames[c].company_id \in DOMAIN _company_threads
       THEN Goto(c, [pc |-> "clear_store", op |-> "clear_thread", thread_id |-> frames[c].thread_id,
                     company_id |-> frames[c].company_id,
                     kept |-> SelectSeq(_company_threads[frames[c].company_id],
                                        LAMBDA tid : tid # frames[c].thread_id)])
       ELSE Return(c, [op |-> "clear_thread", caller |-> c, thread_id |-> frames[c].thread_id,
                       found |-> TRUE, raised |-> "none"], None)
  /\ UNCHANGED <<routerVars, escalationVars, memoryVars, loaderVars, httpVars, branch, env,
                 now, cacheVars, made, appended>>

\* clear_thread: self._company_threads[company_id] = [...]; return
CallerClearStore(c) ==
  /\ frames[c].pc = "clear_store"
  /\ _company_threads' = DictSet(_company_threads, frames[c].company_id, frames[c].kept)
  /\ Return(c, [op |-> "clear_thread", caller |-> c, thread_id |-> frames[c].thread_id,
                found |-> TRUE, raised |-> "none"], None)
  /\ UNCHANGED <<routerVars, escalationVars, _sessions, loaderVars, httpVars, branch, env,
                 now, cacheVars, made, appended>>

\* a caller starts a call
CallerStarts(c) ==
  \/ \E company_id \in ConcurrentCompanies, user_id \in Users :
       \E hex \in FreshToken(company_id) : CallerCreateThread(c, company_id, user_id, hex)
  \/ \E t \in ConcurrentThreadIds, m \in CallerMessages(c) : CallerAddMessage(c, t, m[1], m[2])
  \/ \E t \in ConcurrentThreadIds : CallerGetContext(c, t)
  \/ \E company_id \in ConcurrentCompanies : CallerGetCompanyThreads(c, company_id)
  \/ \E t \in ConcurrentThreadIds : CallerClearThread(c, t)

\* a caller inside a call runs its next bytecode
CallerContinues(c) ==
  \/ CallerCreateListed(c)
  \/ CallerCreateNewList(c)
  \/ CallerCreateAppend(c)
  \/ CallerAppend(c)
  \/ CallerLastUpdated(c)
  \/ CallerClearContext(c)
  \/ CallerClearDel(c)
  \/ CallerClearListed(c)
  \/ CallerClearStore(c)

NextConcurrent == \E c \in Callers : CallerStarts(c) \/ CallerContinues(c)

----------------------------------------------------------------------------
\* config_cache called directly

\* a call on config_cache changes the cache and returns
CacheCall(finished, value, cache, timestamps) ==
  /\ made' = made + 1
  /\ last_call' = finished
  /\ returned' = value
  /\ _cache' = cache
  /\ _timestamps' = timestamps
  /\ UNCHANGED <<routerVars, escalationVars, memoryVars, loaderVars, httpVars, branch, env,
                 now, threadVars>>

\* config_cache.set(company_id, config)
CacheSet(company_id, config) ==
  /\ made < MaxOps
  /\ CacheCall([op |-> "set", company_id |-> company_id, config |-> config], None,
               ConfigCache_set(_cache, _timestamps, company_id, config, now).cache,
               ConfigCache_set(_cache, _timestamps, company_id, config, now).timestamps)

\* config_cache.get(company_id)
CacheGet(company_id) ==
  /\ made < MaxOps
  /\ CacheCall([op |-> "get", company_id |-> company_id,
                cached |-> CacheKey(company_id) \in DOMAIN _cache],
               ConfigCache_get(_cache, _timestamps, company_id, now).value,
               ConfigCache_get(_cache, _timestamps, company_id, now).cache,
               ConfigCache_get(_cache, _timestamps, company_id, now).timestamps)

\* config_cache.invalidate(company_id)
CacheInvalidate(company_id) ==
  /\ made < MaxOps
  /\ CacheCall([op |-> "invalidate", company_id |-> company_id], None,
               ConfigCache_invalidate(_cache, _timestamps, company_id).cache,
               ConfigCache_invalidate(_cache, _timestamps, company_id).timestamps)

\* config_cache.invalidate_all()
CacheInvalidateAll ==
  /\ made < MaxOps
  /\ CacheCall([op |-> "invalidate_all"], None,
               ConfigCache_invalidate_all.cache, ConfigCache_invalidate_all.timestamps)

\* config_cache.get_stats()
CacheGetStats ==
  /\ made < MaxOps
  /\ CacheCall([op |-> "get_stats"], ConfigCache_get_stats(_cache), _cache, _timestamps)

NextCache ==
  \/ \E c \in Companies, config \in AzureConfigs : CacheSet(c, config)
  \/ \E c \in Companies : CacheGet(c)
  \/ \E c \in Companies : CacheInvalidate(c)
  \/ CacheInvalidateAll
  \/ CacheGetStats
  \/ Tick
  \/ ClockSetBack

----------------------------------------------------------------------------
\* The cache endpoints, next to /chat

\* a companyId that `if company_id:` takes as absent: None, or the number 0
NoCompanyId == 0

\* POST /cache/invalidate with a JSON body whose companyId is company_id
InvalidateCache(company_id) ==
  /\ made < MaxOps
  /\ made' = made + 1
  /\ request' = [op |-> "invalidate_cache", company_id |-> company_id]
  /\ response' = [status |-> 200]
  /\ IF company_id # NoCompanyId
       THEN /\ _cache' = ConfigCache_invalidate(_cache, _timestamps, company_id).cache
            /\ _timestamps' = ConfigCache_invalidate(_cache, _timestamps, company_id).timestamps
            /\ _agents' = clear_agent(_agents, _rag_tools, company_id).agents
            /\ _rag_tools' = clear_agent(_agents, _rag_tools, company_id).rag_tools
       ELSE /\ _cache' = ConfigCache_invalidate_all.cache
            /\ _timestamps' = ConfigCache_invalidate_all.timestamps
            /\ UNCHANGED loaderVars
  /\ UNCHANGED <<routerVars, escalationVars, memoryVars, handled, branch, env, now,
                 last_call, returned, threadVars>>

\* GET /cache/stats
CacheStats ==
  /\ made < MaxOps
  /\ made' = made + 1
  /\ request' = [op |-> "cache_stats"]
  /\ response' = [status |-> 200, body |-> ConfigCache_get_stats(_cache)]
  /\ UNCHANGED <<routerVars, escalationVars, memoryVars, loaderVars, handled, branch, env,
                 now, cacheVars, last_call, returned, threadVars>>

\* chat requests with one message and a new thread each, cache requests, and
\* the clock
NextConfig ==
  \/ \E c \in Companies, u \in Users, auth \in AuthOutcomes :
       \E hex \in FreshHex(c) : Chat(c, u, msg_show_alerts, NoThread, auth, hex)
  \/ \E c \in Companies \cup {NoCompanyId} : InvalidateCache(c)
  \/ CacheStats
  \/ Tick
  \/ ClockSetBack

----------------------------------------------------------------------------
\* RAGTool.search on a tool without a search client

\* rag_tool.search(message, top_k)
SearchCall(top_k) ==
  /\ made = 0
  /\ made' = 1
  /\ last_call' = [op |-> "search", query |-> message, top_k |-> top_k]
  /\ returned' = _search_mock(message, top_k)
  /\ UNCHANGED <<routerVars, escalationVars, memoryVars, loaderVars, httpVars, branch, env,
                 now, cacheVars, threadVars>>

\* the max_tokens handed to get_context: nothing fits, one excerpt fits or
\* not, two fit, and the value app.py passes
ContextTokens == {0, 100, 125, 250, 1500}

\* rag_tool.search(message, top_k) on the tool built from azure_config, the
\* remote index answering with remote
RagSearchCall(azure_config, top_k, remote) ==
  /\ made = 0
  /\ made' = 1
  /\ last_call' = [op |-> "rag_search", query |-> message, top_k |-> top_k, remote |-> remote,
                   tool |-> RAGTool(azure_config.azure_search_endpoint,
                                    azure_config.azure_search_key, env.search_sdk)]
  /\ returned' = search(RAGTool(azure_config.azure_search_endpoint,
                                azure_config.azure_search_key, env.search_sdk),
                        message, top_k, remote)
  /\ UNCHANGED <<routerVars, escalationVars, memoryVars, loaderVars, httpVars, branch, env,
                 now, cacheVars, threadVars>>

\* rag_tool.get_context(message, max_tokens) on the tool built from
\* azure_config; documents is what its search returned
RagGetContextCall(azure_config, max_tokens, remote) ==
  /\ made = 0
  /\ made' = 1
  /\ last_call' = [op |-> "get_context", query |-> message, max_tokens |-> max_tokens,
                   remote |-> remote,
                   documents |-> search(RAGTool(azure_config.azure_search_endpoint,
                                                azure_config.azure_search_key, env.search_sdk),
                                        message, 5, remote)]
  /\ returned' = RAGTool_get_context(RAGTool(azure_config.azure_search_endpoint,
                                             azure_config.azure_search_key, env.search_sdk),
                                     message, max_tokens, remote)
  /\ UNCHANGED <<routerVars, escalationVars, memoryVars, loaderVars, httpVars, branch, env,
                 now, cacheVars, threadVars>>

NextSearch ==
  \/ \E top_k \in 1..MaxTopK : SearchCall(top_k)
  \/ \E azure_config \in AzureConfigs, top_k \in 1..MaxTopK, remote \in RemoteOutcomes :
       RagSearchCall(azure_config, top_k, remote)
  \/ \E azure_config \in AzureConfigs, max_tokens \in ContextTokens, remote \in RemoteOutcomes :
       RagGetContextCall(azure_config, max_tokens, remote)

----------------------------------------------------------------------------
\* The per-company stores used side by side

\* the configurations cached and loaded for a company
StoredConfigs(company_id) == {NoCredentials, Full(company_id)}

\* the remote index fails or answers with one hit
TenantRemotes == {remote \in RemoteOutcomes : remote.raised \/ Len(remote.results) = 1}

InitTenants ==
  /\ message = msg_show_alerts
  /\ RouterStart
  /\ ServiceStart
  /\ str_hash = [s \in Subjects |-> 17]
  /\ env = [projects_sdk |-> TRUE, search_sdk |-> TRUE]
  /\ now = 0

\* calls made on the stores in one behaviour of SpecTenants
MaxTenantOps == 3

NextTenants ==
  \/ \E c \in Companies : \E config \in StoredConfigs(c) :
       made < MaxTenantOps /\ CacheSet(c, config)
  \/ \E c \in Companies : made < MaxTenantOps /\ CacheGet(c)
  \/ \E c \in Companies : made < MaxTenantOps /\ CacheInvalidate(c)
  \/ \E c \in Companies : \E azure_config \in StoredConfigs(c) :
       made < MaxTenantOps /\ InitializeAgentCall(c, azure_config)
  \/ \E c \in Companies : made < MaxTenantOps /\ ClearAgentCall(c)
  \/ \E c \in Companies : \E azure_config \in StoredConfigs(c) :
       made < MaxTenantOps /\ RefreshAgentCall(c, azure_config)
  \/ \E c \in Companies, remote \in TenantRemotes :
       made < MaxTenantOps /\ QueryContextCall(c, remote)
  \/ \E c \in Companies, u \in Users, hex \in TokenHex :
       made < MaxTenantOps /\ CreateThreadCall(c, u, hex)
  \/ \E t \in ThreadIds : made < MaxTenantOps /\ ClearThreadCall(t)
  \/ \E c \in Companies : made < MaxTenantOps /\ ClearCompanyThreadsCall(c)
  \/ Tick

----------------------------------------------------------------------------
\* Properties

ip_10_0_0_5 == <<"1","0",".","0",".","0",".","5">>

\* C1: for "bloquea la IP 10.0.0.5" detect_intent returns intent action,
\* action_type block_ip, parameters.ip_addresses = ["10.0.0.5"] and
\* requires_escalation true; _determine_severity then returns critical and
\* should_escalate_to_victoria returns true.
C1_BloqueaScenario ==
  (message = msg_bloquea_la_ip /\ origin = "detected" /\ pc = "decided") =>
    /\ intent_type = "action"
    /\ action_request.action_type = "block_ip"
    /\ "ip_addresses" \in DOMAIN action_request.parameters
    /\ action_request.parameters["ip_addresses"] = <<ip_10_0_0_5>>
    /\ action_request.requires_escalation
    /\ severity = "critical"
    /\ escalate = TRUE

\* C2: every action-intent message that reaches process_user_message in
\* POST /chat is answered 200 with intent action_escalated and a non-empty
\* ticket id; the request never ends in an unhandled error.
C2_ActionRequestsAnswered ==
  (request.op = "chat" /\ response.status \in {200, 500} /\ intent_type = "action") =>
    /\ response.status = 200
    /\ response.intent = "action_escalated"
    /\ truthy(response.ticketId)

SameArguments(a, b) ==
  /\ a.action_request = b.action_request
  /\ a.company_id = b.company_id
  /\ a.user_id = b.user_id
  /\ a.auth_token = b.auth_token

\* C3: two create_ticket_stub calls with identical action_request,
\* company_id, user_id and auth_token return different ticket ids, whether
\* the backend answered 201 or the stub fallback was used.
C3_NoDeduplication ==
  \A i, j \in DOMAIN calls :
    (i < j /\ SameArguments(calls[i], calls[j]) /\ ~calls[i].raised /\ ~calls[j].raised) =>
      str(calls[i].result.ticket_id) # str(calls[j].result.ticket_id)

\* the ticket POST of a logged call failed: the network lost it or its answer,
\* or the backend answered something other than 201
BackendFailed(call) == call.net # "ok" \/ call.status # 201

\* C4: whenever the ticket POST fails (timeout, connection error, a status
\* other than 201) create_ticket_stub returns normally, with a non-empty
\* ticket id and an escalation message that carries that id, the severity
\* and an estimated response time.
C4_FallbackWellFormed ==
  \A i \in DOMAIN calls :
    BackendFailed(calls[i]) =>
      /\ ~calls[i].raised
      /\ truthy(calls[i].result.ticket_id)
      /\ calls[i].result.escalation_message.ticket_id = str(calls[i].result.ticket_id)
      /\ calls[i].result.escalation_message.severity \in {"critical", "high", "medium", "low"}
      /\ calls[i].result.escalation_message.severity =
           _determine_severity(calls[i].action_request)
      /\ calls[i].result.escalation_message.estimated_time = "15 minutes"

\* a call whose POST timed out after the backend had committed the ticket,
\* answered from the stub
C4_Witness ==
  \E i \in DOMAIN calls :
    /\ calls[i].net = "timeout_processed"
    /\ calls[i].rows_after = calls[i].rows_before + 1
    /\ ~calls[i].raised
    /\ calls[i].result.ticket_id.text[1] = "STUB-"

\* C5: every create_ticket_stub call leaves exactly one new ticket in the
\* backend and returns the id of that ticket, whatever the POST met.
C5_ExactlyOneTicket ==
  \A i \in DOMAIN calls :
    ~calls[i].raised =>
      /\ calls[i].rows_after = calls[i].rows_before + 1
      /\ str(calls[i].result.ticket_id) = str(IntVal(calls[i].rows_after))

\* C6 as stated: every ActionRequest with a high-risk action_type, whatever
\* its intent and requires_escalation, is rated critical and escalated.
C6_HighRiskWhateverFlags ==
  (pc = "decided" /\ action_request.action_type \in HIGH_RISK_ACTIONS) =>
    (severity = "critical" /\ escalate = TRUE)

\* C6 amended: an ActionRequest with a high-risk action_type is rated
\* critical and escalated when its requires_escalation is true, whatever its
\* intent; every descriptor detect_intent builds with a high-risk action_type
\* is one of these.
C6_HighRiskFlagged ==
  (pc = "decided" /\ action_request.action_type \in HIGH_RISK_ACTIONS) =>
    /\ origin = "detected" => action_request.requires_escalation
    /\ action_request.requires_escalation => (severity = "critical" /\ escalate = TRUE)

\* a hand-built query descriptor with the flag set and a high-risk type
\* outside the legacy "high" list, rated and decided
C6_Witness ==
  /\ pc = "decided"
  /\ origin = "constructed"
  /\ action_request.intent = "query"
  /\ action_request.action_type = "delete_user"
  /\ action_request.requires_escalation
  /\ severity = "critical"

\* C7: should_escalate_to_victoria is true for every ActionRequest with
\* intent action, and process_user_message never takes the branch that calls
\* execute_security_action.
C7_ActionsAlwaysEscalate ==
  /\ (pc = "decided" /\ action_request.intent = "action") => escalate = TRUE
  /\ pc = "processed" => branch # "execute"
  /\ (pc = "processed" /\ intent_type = "action") => (branch = "escalate" /\ escalate = TRUE)

\* an action message that is not high-risk went through process_user_message
\* and took the escalation branch
C7_Witness ==
  /\ pc = "processed"
  /\ intent_type = "action"
  /\ ~action_request.requires_escalation
  /\ branch = "escalate"

\* C8: a message with an action keyword and no query keyword in its
\* lower-cased text is classified action, and so is its ActionRequest.
C8_ActionKeywordOnly ==
  (origin = "detected" /\ has_action(lower(message)) /\ ~has_query(lower(message))) =>
    (intent_type = "action" /\ action_request.intent = "action")

\* a capitalised action keyword, and no query keyword, classified
C8_Witness ==
  /\ origin = "detected"
  /\ pc = "classified"
  /\ message # lower(message)
  /\ has_action(lower(message))
  /\ ~has_action(message)
  /\ ~has_query(lower(message))
  /\ intent_type = "action"

\* C9: detect_intent follows its decision table on every message: query
\* exactly when a query keyword is present or no action keyword is, then with
\* action_type information_request and requires_escalation false; action
\* otherwise; never unknown.
C9_DecisionTable ==
  origin = "detected" =>
    /\ intent_type \in {"query", "action"}
    /\ action_request.intent = intent_type
    /\ intent_type = "query" <=> (has_query(lower(message)) \/ ~has_action(lower(message)))
    /\ intent_type = "query" =>
         /\ action_request.action_type = "information_request"
         /\ ~action_request.requires_escalation

\* a message with both kinds of keyword, classified query
C9_Witness ==
  /\ origin = "detected"
  /\ has_action(lower(message))
  /\ has_query(lower(message))
  /\ intent_type = "query"
  /\ action_request.action_type = "information_request"

\* C10: a request made for one company leaves every thread of another
\* company as it was and does not return its messages.
C10_TenantIsolation ==
  [][\A t \in DOMAIN _sessions :
       (request'.op # "none" /\ request'.company_id # _sessions[t].company_id) =>
         /\ t \in DOMAIN _sessions'
         /\ _sessions'[t] = _sessions[t]
         /\ ~(request'.op = "get_thread" /\ request'.thread_id = t
              /\ response'.status = 200)]_vars

\* the two messages a chat request appends to its thread
LastTwoAre(messages, user_content, assistant_content) ==
  /\ Len(messages) >= 2
  /\ messages[Len(messages) - 1].role = "user"
  /\ messages[Len(messages) - 1].content = user_content
  /\ messages[Len(messages)].role = "assistant"
  /\ messages[Len(messages)].content = assistant_content

\* C11: after a chat request answered 200 with threadId t, whether t came
\* with the request or was created by it, thread t exists in the session
\* store and its last two messages are the user message and the assistant
\* response of that request.
C11_ChatLeavesPair ==
  (request.op = "chat" /\ response.status = 200) =>
    /\ response.threadId \in DOMAIN _sessions
    /\ LastTwoAre(_sessions[response.threadId].messages, message, response.response)

\* the step is a call of operation op on the memory manager
MemoryCall(op) == made' = made + 1 /\ last_call'.op = op

\* timestamps of a message list never decrease along the list
TimestampsOrdered(messages) ==
  \A i \in 1..(Len(messages) - 1) :
    fromisoformat(messages[i].timestamp) <= fromisoformat(messages[i + 1].timestamp)

\* after is before with one message of that role and content added at the end
AppendedTo(before, after, role, content) ==
  /\ Len(after) = Len(before) + 1
  /\ SubSeq(after, 1, Len(before)) = before
  /\ after[Len(after)].role = role
  /\ after[Len(after)].content = content

\* what one step may do to the messages of thread t, which exists before and after
MessagesStep(t) ==
  IF MemoryCall("add_message") /\ last_call'.thread_id = t
    THEN AppendedTo(_sessions[t].messages, _sessions'[t].messages, last_call'.role, last_call'.content)
    ELSE _sessions'[t].messages = _sessions[t].messages

\* get_context hands out the stored thread, messages included
GetContextReturnsStored ==
  (MemoryCall("get_context") /\ last_call'.thread_id \in DOMAIN _sessions) =>
    /\ returned' = SomeContext(_sessions[last_call'.thread_id])
    /\ returned'.context.messages = _sessions'[last_call'.thread_id].messages

\* C12: for a thread made by create_thread, the add_message calls are what
\* get_context(thread_id).messages returns: each call appends one message with
\* its role and content, no other call changes the messages while the thread
\* exists, and the timestamps along the list never decrease.
C12_AppendOnlyOrdered ==
  /\ [](\A t \in DOMAIN _sessions : TimestampsOrdered(_sessions[t].messages))
  /\ [][(\A t \in DOMAIN _sessions \cap DOMAIN _sessions' : MessagesStep(t)) /\ GetContextReturnsStored]_vars

\* the part of C12 that does not read the clock: messages are appended in call
\* order with role and content unchanged, and get_context returns them
C12_AppendOnly ==
  [][(\A t \in DOMAIN _sessions \cap DOMAIN _sessions' : MessagesStep(t)) /\ GetContextReturnsStored]_vars

\* two calls were appended to one thread
C12_TwoAppended == \E t \in DOMAIN _sessions : Len(_sessions[t].messages) >= 2

\* thread_id is not found and is in no company's list
Gone(sessions, company_threads, thread_id) ==
  /\ MemoryManager_get_context(sessions, thread_id) = NoContext
  /\ \A c \in Companies : thread_id \notin Elements(get_company_threads(company_threads, c))

\* every thread but thread_id is stored and listed as it was
OthersKept(thread_id) ==
  /\ \A u \in DOMAIN _sessions \ {thread_id} :
       MemoryManager_get_context(_sessions', u) = SomeContext(_sessions[u])
  /\ \A c \in Companies :
       Elements(get_company_threads(_company_threads, c)) \ {thread_id}
         \subseteq Elements(get_company_threads(_company_threads', c))

\* C13: after clear_thread(t) on an existing thread, get_context(t) finds
\* nothing, t is in no company's thread list, and every other thread, of that
\* company or of another, is still stored and listed.
C13_ClearThreadRemoves ==
  [][(MemoryCall("clear_thread") /\ last_call'.found) =>
       /\ Gone(_sessions', _company_threads', last_call'.thread_id)
       /\ OthersKept(last_call'.thread_id)]_vars

\* a thread was cleared while its company had another thread and another
\* company had one too
C13_Witness ==
  /\ last_call.op = "clear_thread"
  /\ last_call.found
  /\ last_call.thread_id \notin DOMAIN _sessions
  /\ \E u \in DOMAIN _sessions : _sessions[u].company_id = last_call.thread_id[2]
  /\ \E u \in DOMAIN _sessions : _sessions[u].company_id # last_call.thread_id[2]

\* the (role, content) pairs of a list of messages
Pairs(messages) == [i \in 1..Len(messages) |-> <<messages[i].role, messages[i].content>>]

\* what caller c appended to thread t, in the order of its calls
AppendedBy(c, t) == SelectSeq(appended[c], LAMBDA m : m.thread_id = t)

\* the messages of thread t that are caller c's, in the order they are stored
StoredOf(c, t) == SelectSeq(_sessions[t].messages, LAMBDA m : <<m.role, m.content>> \in CallerMessages(c))

\* the number of appends made to thread t
AppendsTo(t) == Len(AppendedBy("A", t)) + Len(AppendedBy("B", t))

\* C14: when two callers append to the same stored thread at the same time no
\* message is lost: the thread holds as many messages as appends were made to
\* it, and each caller's messages are stored in the order of its calls.
C14_NoLostAppend ==
  \A t \in DOMAIN _sessions :
    /\ Len(_sessions[t].messages) = AppendsTo(t)
    /\ \A c \in Callers : Pairs(StoredOf(c, t)) = Pairs(AppendedBy(c, t))

\* caller B looked a thread up, appended and returned while caller A, who had
\* two appends of its own, was inside add_message on the same thread
C14_Witness ==
  /\ frames["A"].pc = "add_updated"
  /\ last_call.op = "add_message"
  /\ last_call.caller = "B"
  /\ last_call.found
  /\ last_call.thread_id = frames["A"].thread_id
  /\ frames["A"].thread_id \in DOMAIN _sessions
  /\ Len(frames["A"].context.context.messages) = 1
  /\ Len(_sessions[frames["A"].thread_id].messages) = 3
  /\ _sessions[frames["A"].thread_id].messages[1].role = "user"
  /\ _sessions[frames["A"].thread_id].messages[2].role = "assistant"
  /\ _sessions[frames["A"].thread_id].messages[3].role = "user"

\* the threads some company's list holds
Listed(company_threads) == UNION {Elements(company_threads[c]) : c \in DOMAIN company_threads}

\* what a caller's read shows agrees with the other map at that moment: a list
\* get_company_threads returns holds stored threads only, and a thread
\* get_context does not find is in no list
ReadsAgree ==
  /\ (made' = made + 1 /\ last_call'.op = "get_company_threads") =>
       Elements(returned') \subseteq DOMAIN _sessions'
  /\ (made' = made + 1 /\ last_call'.op = "get_context") =>
       (returned'.is_none => last_call'.thread_id \notin Listed(_company_threads'))

\* once no call is running, every stored thread is in a company's list
CreatedKept ==
  (\A c \in Callers : frames[c].pc = "idle") => DOMAIN _sessions \subseteq Listed(_company_threads)

\* C15: deletion is atomic for concurrent callers: while clear_thread(t) runs
\* next to get_context, get_company_threads and create_thread, no caller reads
\* t from the company index while the primary map lacks it, and a thread
\* created meanwhile is not dropped from the company index.
C15_AtomicDeletion == [][ReadsAgree]_vars /\ []CreatedKept

\* the second half of C15 alone
C15_CreatedKept == []CreatedKept

\* the step is a call of operation op on config_cache for company c
CacheCallOn(op, c) == made' = made + 1 /\ last_call'.op = op /\ last_call'.company_id = c

\* the age of company c's entry exceeds the TTL
Expired(c) == now - _timestamps[CacheKey(c)] > CACHE_TTL_SECONDS

\* company c's entry is as it was
EntryKept(c) ==
  /\ CacheKey(c) \in DOMAIN _cache'
  /\ _cache'[CacheKey(c)] = _cache[CacheKey(c)]
  /\ _timestamps'[CacheKey(c)] = _timestamps[CacheKey(c)]

\* company c has no entry any more
EntryRemoved(c) == CacheKey(c) \notin DOMAIN _cache' /\ CacheKey(c) \notin DOMAIN _timestamps'

\* what one step does about company c's entry
EntryStep(c) ==
  IF CacheCallOn("set", c)
    THEN /\ _cache'[CacheKey(c)] = last_call'.config
         /\ _timestamps'[CacheKey(c)] = now
  ELSE IF CacheKey(c) \notin DOMAIN _cache
    THEN /\ CacheKey(c) \notin DOMAIN _cache'
         /\ CacheCallOn("get", c) => returned' = NoDict
  ELSE IF CacheCallOn("get", c)
    THEN IF Expired(c) THEN returned' = NoDict /\ EntryRemoved(c)
                       ELSE returned' = SomeDict(_cache[CacheKey(c)]) /\ EntryKept(c)
  ELSE IF CacheCallOn("invalidate", c) \/ (made' = made + 1 /\ last_call'.op = "invalidate_all")
    THEN EntryRemoved(c)
  ELSE EntryKept(c)

\* get_stats counts every entry held, expired or not
StatsCountAll ==
  (made' = made + 1 /\ last_call'.op = "get_stats") =>
    /\ returned'.total_entries = Cardinality(DOMAIN _cache)
    /\ returned'.companies = DOMAIN _cache

\* C16: the cache expires lazily.  After set(c, cfg), get(c) returns cfg while
\* the entry's age does not exceed the TTL; a get(c) that finds the age above
\* the TTL returns None and removes the entry; nothing but that get,
\* invalidate(c) and invalidate_all removes an entry, and an expired entry
\* stays counted by get_stats until then.
C16_LazyExpiry == [][(\A c \in Companies : EntryStep(c)) /\ StatsCountAll]_vars

\* get(1) found company 1's entry expired, returned None and removed it, while
\* company 2's entry, expired as well, is still held
C16_Witness ==
  /\ last_call.op = "get"
  /\ last_call.company_id = 1
  /\ last_call.cached
  /\ returned = NoDict
  /\ CacheKey(1) \notin DOMAIN _cache
  /\ CacheKey(2) \in DOMAIN _cache
  /\ Expired(2)

\* the agent_instance a chat request works with, given what the backend answered
AgentInstanceOf(auth) ==
  IF dict_truthy(auth.agent_instance) THEN auth.agent_instance.dict ELSE auth.fallback.dict

\* the loader's maps after initialising company_id from that configuration alone
FreshlyInitialised(company_id, auth) ==
  initialize_agent(EmptyDict, EmptyDict, company_id, AgentInstanceOf(auth), env.projects_sdk, env.search_sdk)

\* after the step, the agent and RAG tool of request'.company_id are the ones
\* built from the configuration request' fetched
UsesFetchedConfig ==
  /\ _agents'[request'.company_id] =
       FreshlyInitialised(request'.company_id, request'.auth).agents[request'.company_id]
  /\ _rag_tools'[request'.company_id] =
       FreshlyInitialised(request'.company_id, request'.auth).rag_tools[request'.company_id]

\* the step leaves the agent and RAG tool of request'.company_id as they were
ReusesAgent ==
  /\ _agents'[request'.company_id] = _agents[request'.company_id]
  /\ _rag_tools'[request'.company_id] = _rag_tools[request'.company_id]

\* the step is a chat request answered 200, the second of its company, right
\* after the first, which was answered 200 and initialised the agent
SecondChat ==
  /\ request.op = "chat"
  /\ response.status = 200
  /\ handled = 1
  /\ handled' = 2
  /\ request'.op = "chat"
  /\ response'.status = 200
  /\ request'.company_id = request.company_id

\* C17: a company's configuration is cached with a TTL.  A chat request within
\* the TTL of the one that initialised the company's agent reuses agent and
\* RAG tool; the first chat request after the TTL has elapsed initialises them
\* again, from the configuration fetched for that request.
C17_ConfigTTL ==
  [][SecondChat =>
       IF now - request.at > CACHE_TTL_SECONDS THEN UsesFetchedConfig ELSE ReusesAgent]_vars

\* the half of C17 about requests within the TTL
C17_ReusedWithinTTL ==
  [][(SecondChat /\ now - request.at <= CACHE_TTL_SECONDS) => ReusesAgent]_vars

\* the step is a chat request answered 200 that comes right after a
\* POST /cache/invalidate covering its company
ChatAfterInvalidation ==
  /\ request.op = "invalidate_cache"
  /\ request'.op = "chat"
  /\ response'.status = 200
  /\ request.company_id \in {NoCompanyId, request'.company_id}

\* C18: after POST /cache/invalidate, for one company or for all, the next
\* chat request of an invalidated company initialises its agent and RAG tool
\* from the configuration that request supplies.
C18_InvalidateReinitialises == [][ChatAfterInvalidation => UsesFetchedConfig]_vars

\* the part of C18 about an invalidation that names the company
C18_NamedCompany ==
  [][(ChatAfterInvalidation /\ request.company_id # NoCompanyId) => UsesFetchedConfig]_vars

\* a search has been made
Searched == made = 1 /\ last_call.op = "search"

\* where a document is in a result list, 0 when it is not there
PositionIn(results, doc) ==
  IF \E i \in 1..Len(results) : results[i] = doc
    THEN CHOOSE i \in 1..Len(results) : results[i] = doc
    ELSE 0

\* document a is returned and document b is returned behind it or not at all
RankedAbove(results, a, b) ==
  /\ PositionIn(results, a) > 0
  /\ PositionIn(results, b) = 0 \/ PositionIn(results, a) < PositionIn(results, b)

\* the documents of the corpus
Documents == {mock_knowledge[i] : i \in 1..Len(mock_knowledge)}

\* the keyword-match count of a document for a query
KeywordMatches(doc, query) == keyword_matches(split(lower(query)), doc_text(doc))

\* C19: search("que' es un firewall", 3) on the local corpus ranks the
\* firewall-definition document above the IP-blocking-procedure document; and
\* for any explanatory query, a procedures document is never ranked above a
\* concepts or threats document that matches at least as many keywords.
C19_ConceptsAboveProcedures ==
  Searched =>
    /\ (last_call.query = query_que_es_un_firewall /\ last_call.top_k = 3) =>
         RankedAbove(returned, doc_firewall, doc_block_ip)
    /\ is_explanatory(lower(last_call.query)) =>
         \A p \in Documents, c \in Documents :
           (/\ p.metadata.category = "procedures"
            /\ c.metadata.category \in {"concepts", "threats"}
            /\ KeywordMatches(c, last_call.query) >= KeywordMatches(p, last_call.query))
             => ~RankedAbove(returned, p, c)

\* search("que' es un firewall", 3) returned the firewall definition first
\* and left the IP-blocking procedure out
C19_Witness ==
  /\ Searched
  /\ last_call.query = query_que_es_un_firewall
  /\ last_call.top_k = 3
  /\ Len(returned) = 3
  /\ returned[1] = doc_firewall
  /\ PositionIn(returned, doc_block_ip) = 0

\* an explanatory query that matches eight keywords of the procedures
\* document gets it back, behind the five concepts and threats documents
C19_ProcedureReturnedLast ==
  /\ Searched
  /\ last_call.query = query_explica_bloquear
  /\ PositionIn(returned, doc_block_ip) = 6

\* the position in the corpus of the i-th result
CorpusPosition(results, i) == PositionIn(mock_knowledge, results[i])

\* the match_count of the i-th result
ResultScore(results, i, query) == match_count(results[i], query)

\* the documents whose match_count for the query is above 0
Scoring(query) == {doc \in Documents : match_count(doc, query) > 0}

\* the smaller of two numbers
Smaller(a, b) == IF a < b THEN a ELSE b

\* the result list is in descending match_count, ties in corpus order
Descending(results, query) ==
  \A i \in 1..Len(results), j \in 1..Len(results) :
    i < j =>
      \/ ResultScore(results, i, query) > ResultScore(results, j, query)
      \/ /\ ResultScore(results, i, query) = ResultScore(results, j, query)
         /\ CorpusPosition(results, i) < CorpusPosition(results, j)

\* no scoring document left out should have come before the last result
NoneBetterLeftOut(results, query) ==
  \A doc \in Scoring(query) :
    PositionIn(results, doc) = 0 =>
      \/ match_count(doc, query) < ResultScore(results, Len(results), query)
      \/ /\ match_count(doc, query) = ResultScore(results, Len(results), query)
         /\ PositionIn(mock_knowledge, doc) > CorpusPosition(results, Len(results))

\* C20: for every query and top_k >= 1 the local search returns between one
\* and top_k documents, in descending match_count with ties in corpus order;
\* when no document scores above 0 it returns the first top_k documents of
\* the corpus in corpus order.
C20_TopKOrdered ==
  Searched =>
    /\ Len(returned) >= 1
    /\ Len(returned) <= last_call.top_k
    /\ IF Scoring(last_call.query) = {}
         THEN returned = SubSeq(mock_knowledge, 1, Smaller(last_call.top_k, Len(mock_knowledge)))
         ELSE /\ Len(returned) = Smaller(last_call.top_k, Cardinality(Scoring(last_call.query)))
              /\ \A i \in 1..Len(returned) : returned[i] \in Scoring(last_call.query)
              /\ Descending(returned, last_call.query)
              /\ NoneBetterLeftOut(returned, last_call.query)

\* a search cut off at top_k inside a run of documents with equal match_count
C20_Witness ==
  /\ Searched
  /\ Cardinality(Scoring(last_call.query)) > last_call.top_k
  /\ Len(returned) = last_call.top_k
  /\ Len(returned) >= 2
  /\ ResultScore(returned, Len(returned) - 1, last_call.query)
       = ResultScore(returned, Len(returned), last_call.query)
  /\ \E doc \in Scoring(last_call.query) :
       /\ PositionIn(returned, doc) = 0
       /\ match_count(doc, last_call.query) = ResultScore(returned, Len(returned), last_call.query)

\* a search that found nothing scoring and fell back on the head of the corpus
C20_Fallback ==
  /\ Searched
  /\ Scoring(last_call.query) = {}
  /\ returned = SubSeq(mock_knowledge, 1, last_call.top_k)


\* the excerpts of the first k documents
Excerpts(documents, k) ==
  SubSeq([i \in 1..k |-> context_doc_text(documents[i])], 1, k)

RECURSIVE TotalLen(_)
TotalLen(parts) == IF parts = <<>> THEN 0 ELSE Len(parts[1]) + TotalLen(Tail(parts))

GotContext == made = 1 /\ last_call.op = "get_context"

\* the text is the header and the first k excerpts, and these fit the budget
HeaderAndPrefix(text, documents, k, max_chars) ==
  /\ text = join_newline(<<context_header>> \o Excerpts(documents, k))
  /\ TotalLen(Excerpts(documents, k)) <= max_chars

\* a first document larger than the budget leaves the header alone
FirstTooLarge(text, documents, max_chars) ==
  (documents # <<>> /\ Len(context_doc_text(documents[1])) > max_chars) => text = context_header

\* C21 as stated: get_context returns the header line followed by a prefix of
\* the ranked documents, each whole, whose excerpts total at most
\* max_tokens*4 characters, and the header line only when the first document
\* alone exceeds the budget.
C21_HeaderAndPrefix ==
  GotContext =>
    /\ \E k \in 0..Len(last_call.documents) :
         HeaderAndPrefix(returned, last_call.documents, k, last_call.max_tokens * 4)
    /\ FirstTooLarge(returned, last_call.documents, last_call.max_tokens * 4)

\* C21, amended: when the search returns at least one document get_context
\* returns the header line followed by a prefix of the ranked documents, each
\* whole, whose excerpts total at most max_tokens*4 characters, and the header
\* line only when the first document alone exceeds the budget; when the search
\* returns no document it returns the not-found sentence without the header.
C21_HeaderAndPrefixOfFound ==
  GotContext =>
    IF last_call.documents = <<>>
      THEN returned = no_documents_text
      ELSE /\ \E k \in 0..Len(last_call.documents) :
                HeaderAndPrefix(returned, last_call.documents, k, last_call.max_tokens * 4)
           /\ FirstTooLarge(returned, last_call.documents, last_call.max_tokens * 4)

\* a context cut between two of the five ranked documents
C21_Witness ==
  /\ GotContext
  /\ Len(last_call.documents) = 5
  /\ \E k \in 1..4 : returned = join_newline(<<context_header>> \o Excerpts(last_call.documents, k))

RagSearched == made = 1 /\ last_call.op = "rag_search"

\* C26: search never raises, and when the remote backend is configured and
\* its call fails, search returns what the local corpus search returns for
\* the same query and top_k.
C26_SearchFallsBack ==
  RagSearched =>
    /\ \A i \in 1..Len(returned) : DOMAIN returned[i] = {"content", "title", "score", "metadata"}
    /\ (last_call.tool.search_client /\ last_call.remote.raised)
         => returned = _search_mock(last_call.query, last_call.top_k)

\* a failed remote call answered from the local corpus
C26_Witness ==
  /\ RagSearched
  /\ last_call.tool.search_client
  /\ last_call.remote.raised
  /\ returned = _search_mock(last_call.query, last_call.top_k)
  /\ returned # <<>>


\* the (company_id, user_id) pair a thread belongs to
Owner(sessions, t) == <<sessions[t].company_id, sessions[t].user_id>>

\* a step leaves the owner of every thread it keeps
OwnersKept == \A t \in DOMAIN _sessions \cap DOMAIN _sessions' : Owner(_sessions', t) = Owner(_sessions, t)

\* create_thread returns t in this step
CreateReturns(t) == MemoryCall("create_thread") /\ returned' = t

\* no id is held by threads of two companies: an id names its company
NamesItsCompany == \A t \in DOMAIN _sessions : t = ThreadId(_sessions[t].company_id, t[4])

\* create_thread returns the id that the call before it cleared
ReturnsClearedId ==
  /\ last_call.op = "clear_thread"
  /\ last_call.found
  /\ CreateReturns(last_call.thread_id)

\* C22: a thread_id maps to one (company_id, user_id) pair for its whole
\* lifetime: no create_thread, add_message, clear_thread or
\* clear_company_threads changes the owner of an existing thread, create_thread
\* never returns an id that is in use or that was in use until the call before
\* it, and threads of different companies never share an id.
C22_OneOwnerPerThread ==
  [][/\ OwnersKept
     /\ \A t \in DOMAIN _sessions : ~CreateReturns(t)
     /\ ~ReturnsClearedId
     /\ NamesItsCompany']_vars

\* the part of C22 about ids that were in use
C22_NeverAClearedId == [][~ReturnsClearedId]_vars

\* the part of C22 about the owner of an existing thread
C22_OwnerKept == [][OwnersKept]_vars

\* the part of C22 about ids in use now
C22_NeverAnIdInUse == [][\A t \in DOMAIN _sessions : ~CreateReturns(t)]_vars

\* the part of C22 about the calls other than create_thread
C22_OtherCallsKeepOwner == [][MemoryCall("create_thread") \/ OwnersKept]_vars

\* the part of C22 about companies
C22_NoCrossCompanyId == NamesItsCompany


\* how many times t is listed in the index of company c
TimesListed(company_threads, c, t) ==
  IF c \in DOMAIN company_threads
    THEN Len(SelectSeq(company_threads[c], LAMBDA tid : tid = t))
    ELSE 0

\* t is stored under its company, once, and under no other company
StoredAndListedOnce(t) ==
  /\ t \in DOMAIN _sessions
  /\ TimesListed(_company_threads, _sessions[t].company_id, t) = 1
  /\ \A c \in Companies \ {_sessions[t].company_id} : TimesListed(_company_threads, c, t) = 0

\* t is neither stored nor listed
NeitherStoredNorListed(t) ==
  /\ t \notin DOMAIN _sessions
  /\ \A c \in Companies : TimesListed(_company_threads, c, t) = 0

\* C29: after any sequential series of create_thread, add_message,
\* clear_thread and clear_company_threads calls the primary map and the
\* per-company index agree: a thread_id is in _sessions exactly when it is
\* listed, exactly once, in the index of the company of its context, and in no
\* other company's index.
C29_MapsAgree == \A t \in ThreadIds : StoredAndListedOnce(t) \/ NeitherStoredNorListed(t)

\* t is stored and listed under its company, and under no other company
StoredAndListed(t) ==
  /\ t \in DOMAIN _sessions
  /\ TimesListed(_company_threads, _sessions[t].company_id, t) >= 1
  /\ \A c \in Companies \ {_sessions[t].company_id} : TimesListed(_company_threads, c, t) = 0

\* C29, amended: after any sequential series of create_thread, add_message,
\* clear_thread and clear_company_threads calls a thread_id is in _sessions
\* exactly when it is listed, at least once, in the index of the company of its
\* context, and it is in no other company's index; it is listed more than once
\* when create_thread returned it while it was in use.
C29_StoredIffListed == \A t \in ThreadIds : StoredAndListed(t) \/ NeitherStoredNorListed(t)

\* create_thread returned an id in use: stored once, listed twice
C29_Witness ==
  /\ last_call.op = "create_thread"
  /\ TimesListed(_company_threads, last_call.company_id, returned) = 2
  /\ \E t \in DOMAIN _sessions : _sessions[t].company_id # last_call.company_id

\* with tokens that never repeat the maps agree as C29 states: both companies
\* hold threads after a thread was cleared
C29_BothCompaniesListed ==
  /\ last_call.op = "clear_thread"
  /\ last_call.found
  /\ \A c \in Companies : \E t \in DOMAIN _sessions : _sessions[t].company_id = c
  /\ C29_MapsAgree


\* whether each rule's pattern occurs in m, in the order of the claim
RuleOccurs(m) ==
  <<Contains(kw_block, m) /\ Contains(kw_ip, m),
    Contains(kw_quarantine, m) \/ Contains(kw_isolate, m),
    Contains(kw_shutdown, m) \/ Contains(kw_shut_down, m),
    Contains(kw_delete, m) /\ Contains(kw_user, m),
    Contains(kw_disable, m) /\ Contains(kw_firewall, m),
    Contains(kw_emergency, m),
    Contains(kw_block, m),
    Contains(kw_configure, m) \/ Contains(kw_change, m)>>

RuleTypes ==
  <<"block_ip", "quarantine_device", "shutdown_system", "delete_user", "disable_firewall",
    "emergency_response", "block_resource", "configuration_change">>

\* the type of the earliest rule marked in occurs, general_action without one
EarliestRule(occurs) ==
  IF \E i \in 1..Len(occurs) : occurs[i]
    THEN RuleTypes[CHOOSE i \in 1..Len(occurs) : occurs[i] /\ \A j \in 1..(i - 1) : ~occurs[j]]
    ELSE "general_action"

ActionTypeDetermined == made = 1 /\ last_call.op = "_determine_action_type"

\* C24: _determine_action_type applies its substring rules in a fixed order
\* and the first matching rule wins: the result is the action type of the
\* earliest rule, in the order block+ip, quarantine/isolate, shutdown,
\* delete+user, disable+firewall, emergency, block, configure/change, whose
\* pattern occurs in the message, and general_action when none occurs.
C24_FirstRuleWins == ActionTypeDetermined => returned = EarliestRule(RuleOccurs(last_call.message))

\* a message in which the patterns of four rules occur
C24_Witness ==
  /\ ActionTypeDetermined
  /\ returned = "block_ip"
  /\ RuleOccurs(last_call.message)[2]
  /\ RuleOccurs(last_call.message)[6]
  /\ RuleOccurs(last_call.message)[7]


\* the descriptor detect_intent built for the message was rated and decided
DetectedAndDecided == origin = "detected" /\ pc = "decided"

\* C27: for every descriptor that detect_intent can produce _determine_severity
\* never returns high, the block_ip/quarantine_device/shutdown_system rule
\* being shadowed by the requires_escalation rule, so that every descriptor
\* that is escalated to a ticket is rated critical or medium.
C27_NeverHigh ==
  /\ (origin = "detected" /\ pc \in {"rated", "decided"}) => severity # "high"
  /\ (DetectedAndDecided /\ escalate = TRUE) => severity \in {"critical", "medium"}

\* a quarantine request, one of the three types of the shadowed rule, rated
\* critical and escalated
C27_Witness ==
  /\ DetectedAndDecided
  /\ action_request.action_type = "quarantine_device"
  /\ severity = "critical"
  /\ escalate = TRUE


kw_remove == <<"r","e","m","o","v","e">>

\* the action keywords that, sent alone, are not classified action
IneffectiveKeywords == {k \in ACTION_KEYWORDS : detect_intent(k)[1] # "action"}

\* C28: every entry of ACTION_KEYWORDS is effective: the message that
\* consists of the keyword alone is classified action, no action keyword
\* containing a QUERY_KEYWORDS entry that forces the query intent.
C28_KeywordsEffective ==
  (origin = "detected" /\ message \in ACTION_KEYWORDS) =>
    (intent_type = "action" /\ ~has_query(lower(message)))

\* remove, which contains the query keyword ve, is the one ineffective keyword
C28_OnlyRemove ==
  (origin = "detected" /\ message \in ACTION_KEYWORDS) =>
    (intent_type = "action" <=> message # kw_remove)

C28_IneffectiveIsRemove == IneffectiveKeywords = {kw_remove}


\* the step is a call of op on the agent loader
LoaderCall(op) == made' = made + 1 /\ last_call'.op = op

\* initialize_agent called for a company that has an agent: the id of that
\* agent comes back and nothing is stored
Idempotent ==
  (LoaderCall("initialize_agent") /\ last_call'.company_id \in DOMAIN _agents) =>
    /\ returned' = _agents[last_call'.company_id].agent_id
    /\ _agents' = _agents
    /\ _rag_tools' = _rag_tools

\* C30: initialize_agent is idempotent per company: once a company has an
\* agent, a further call for it, even with a different azure_config, returns
\* the same agent id and leaves the stored agent record and RAG tool
\* unchanged until clear_agent or refresh_agent is called for it; after any
\* sequence of these calls a company has an agent record exactly when it has a
\* RAG tool.
C30_InitializeIdempotent ==
  [][Idempotent /\ DOMAIN _agents' = DOMAIN _rag_tools']_vars

\* a second initialize_agent for a company, with a configuration that would
\* have built another RAG tool, after which the first tool is still stored
C30_Witness ==
  /\ last_call.op = "initialize_agent"
  /\ last_call.had_agent
  /\ returned = _agents[last_call.company_id].agent_id
  /\ _rag_tools[last_call.company_id]
       # RAGTool(last_call.azure_config.azure_search_endpoint,
                 last_call.azure_config.azure_search_key, env.search_sdk)

LLMUsable(azure_config) ==
  azure_config.azure_openai_endpoint # "" /\ azure_config.azure_openai_key # ""

SearchUsable(azure_config) ==
  azure_config.azure_search_endpoint # "" /\ azure_config.azure_search_key # ""

\* the Azure agent cannot be set up: no SDK or no project id
AzureInitFails(azure_config) == ~env.projects_sdk \/ azure_config.azure_project_id = ""

\* initialize_agent built the agent of the company from last_call.azure_config
Initialised ==
  /\ last_call.op \in {"initialize_agent", "refresh_agent"}
  /\ last_call.op = "initialize_agent" => ~last_call.had_agent

\* the context the local corpus gives for the message
LocalContext == context_of(_search_mock(msg_show_alerts, 5), 1500)

\* the context the hits of the remote index give for the message
RemoteContexts ==
  [remote \in RemoteOutcomes |-> context_of(_search_azure(msg_show_alerts, 5, remote), 1500)]

RemoteContext(remote) == RemoteContexts[remote]

\* the query of the last call was answered by the tool of a mock-mode agent
MockAgentQueried ==
  /\ last_call.op = "query"
  /\ last_call.has_tool
  /\ _agents[last_call.company_id].mode = "mock"

\* C25 as stated: for a tenant with neither LLM nor search credentials, or
\* whose Azure initialisation fails, initialize_agent returns an agent id and
\* registers a mock-mode agent and a RAG tool backed by the local corpus, and
\* a following query is answered from the local corpus.
C25_MockAgentLocalTool ==
  /\ (Initialised /\ (/\ ~LLMUsable(last_call.azure_config)
                       /\ ~SearchUsable(last_call.azure_config)
                     \/ AzureInitFails(last_call.azure_config))) =>
       /\ returned = _agents[last_call.company_id].agent_id
       /\ _agents[last_call.company_id].mode = "mock"
       /\ ~_rag_tools[last_call.company_id].search_client
  /\ MockAgentQueried => returned = LocalContext

\* C25, amended: initialize_agent always returns an agent id and registers an
\* agent and a RAG tool.  The agent is in mock mode exactly when the LLM
\* credentials are missing or the Azure initialisation fails; the RAG tool is
\* backed by the local corpus exactly when the search credentials are missing
\* or the search client cannot be built, whatever the agent's mode.  A
\* following query is answered by that tool: from the local corpus when the
\* tool is local or the remote search fails, from the remote index otherwise.
C25_DegradesEachPart ==
  /\ Initialised =>
       /\ returned = _agents[last_call.company_id].agent_id
       /\ _agents[last_call.company_id].mode = "mock"
            <=> (~LLMUsable(last_call.azure_config) \/ AzureInitFails(last_call.azure_config))
       /\ ~_rag_tools[last_call.company_id].search_client
            <=> (~SearchUsable(last_call.azure_config) \/ ~env.search_sdk)
  /\ (last_call.op = "query" /\ last_call.has_tool) =>
       /\ ~_rag_tools[last_call.company_id].search_client => returned = LocalContext
       /\ last_call.remote.raised => returned = LocalContext
       /\ (_rag_tools[last_call.company_id].search_client /\ ~last_call.remote.raised) =>
            returned = RemoteContext(last_call.remote)

\* a tenant without credentials, its agent in mock mode, its query answered
\* from the local corpus
C25_Witness ==
  /\ MockAgentQueried
  /\ ~_rag_tools[last_call.company_id].search_client
  /\ _rag_tools[last_call.company_id].search_endpoint = ""
  /\ returned = LocalContext
  /\ returned # no_documents_text


\* what the stores hold for company d: its cached configuration and the
\* time it was cached, its agent record, its RAG tool, its threads and its
\* thread index
CompanyView(cache, timestamps, agents, rag_tools, sessions, company_threads, d) ==
  [config |-> IF CacheKey(d) \in DOMAIN cache THEN SomeDict(cache[CacheKey(d)]) ELSE NoDict,
   cached_at |-> IF CacheKey(d) \in DOMAIN timestamps THEN {timestamps[CacheKey(d)]} ELSE {},
   agent |-> IF d \in DOMAIN agents THEN {agents[d]} ELSE {},
   rag_tool |-> IF d \in DOMAIN rag_tools THEN {rag_tools[d]} ELSE {},
   threads |-> {sessions[t] : t \in {x \in DOMAIN sessions : sessions[x].company_id = d}},
   index |-> IF d \in DOMAIN company_threads THEN {company_threads[d]} ELSE {}]

\* the company a call is addressed to: the one it names, or the one its
\* thread id names
AddressedCompany(call) ==
  IF "company_id" \in DOMAIN call THEN call.company_id ELSE call.thread_id[2]

\* a step leaves what the stores hold for company d
ViewKept(d) ==
  CompanyView(_cache', _timestamps', _agents', _rag_tools', _sessions', _company_threads', d)
    = CompanyView(_cache, _timestamps, _agents, _rag_tools, _sessions, _company_threads, d)

\* the RAG tools that can be built from the configurations of company c
ToolsOf(c) ==
  {RAGTool(config.azure_search_endpoint, config.azure_search_key, env.search_sdk) :
     config \in StoredConfigs(c)}

\* C23: an operation addressed to one company (ConfigCache set, get,
\* invalidate; AgentLoader initialize_agent, clear_agent, refresh_agent;
\* MemoryManager create_thread, clear_thread, clear_company_threads) leaves the
\* cached config, agent record, RAG tool, threads and thread index of every
\* other company unchanged, and the RAG tool used for a company's query is
\* one built from that company's own configuration.
C23_OtherCompaniesUntouched ==
  [][/\ made' = made + 1 =>
          \A d \in Companies \ {AddressedCompany(last_call')} : ViewKept(d)
     /\ \A c \in DOMAIN _rag_tools' : _rag_tools'[c] \in ToolsOf(c)]_vars

\* company 1's agent cleared while company 2 has a cached configuration and
\* an agent with a RAG tool on its own index
C23_Witness ==
  /\ last_call.op = "clear_agent"
  /\ last_call.company_id = 1
  /\ CacheKey(2) \in DOMAIN _cache
  /\ 2 \in DOMAIN _agents
  /\ 2 \in DOMAIN _rag_tools
  /\ _rag_tools[2].search_endpoint = SearchEndpointOf[2]

----------------------------------------------------------------------------
\* Specifications

\* the chat service handling HTTP requests
Spec == Init /\ [][Next]_vars

\* the classifier and the risk policy applied to one input
SpecRouter == InitRouter /\ [][NextRouter]_vars

\* create_ticket_stub called directly by a client of the handoff module
SpecEscalation == InitEscalation /\ [][NextEscalation]_vars

\* the local knowledge search applied to one query
SpecSearch == InitSearch /\ [][NextSearch]_vars

\* the action-type rules applied to one message
SpecActionType == InitActionType /\ [][NextActionType]_vars

\* the agent loader called directly, and queries answered with its tools
SpecLoader == InitLoader /\ [][NextLoader]_vars

\* cache, loader and memory called side by side for two companies
SpecTenants == InitTenants /\ [][NextTenants]_vars

\* the memory manager whose random tokens may repeat
SpecTokens == InitMemory /\ [][NextTokens]_vars

\* the service with its cache endpoints, as the clock runs
SpecConfig == InitMemory /\ [][NextConfig]_vars

\* the configuration cache called directly, as the clock runs
SpecCache == InitMemory /\ [][NextCache]_vars

\* the memory manager called by two threads at once
SpecConcurrent == InitMemory /\ [][NextConcurrent]_vars

\* the memory manager called directly, one call at a time, as the clock runs
SpecMemory == InitMemory /\ [][NextMemory]_vars

====
